---- MODULE Spec2Model ----
(***************************************************************************)
(* Issue-triage assistant: the operations exposed by the HTTP API          *)
(* (src/main.py), by the tool server (src/issue_triage_server.py) and by   *)
(* the HTTP-forwarding tool binding (src/MCP/MCPserver/python).            *)
(*                                                                         *)
(* Spec           the priority scorer on its surfaces.                     *)
(* SpecService    the operations of the two servers that talk to the       *)
(*                vector-search service: the connection handle, the        *)
(*                similarity retriever, the summarizer, the label search   *)
(*                and the scorer, with the network calls each invocation   *)
(*                makes.                                                   *)
(* SpecConfig     configuration resolution of the tool binding and the     *)
(*                calls it forwards.                                       *)
(* SpecLimits     the three processes side by side: every entry surface    *)
(*                through which a retrieval is asked for.                  *)
(* SpecIngest     one run of the batch ingestion script                    *)
(*                (src/ingest_to_weaviate.py) over a JSONL file.           *)
(*                                                                         *)
(* Strings that the code inspects character by character (issue text,      *)
(* keywords, labels, titles, bodies) are sequences of one-character        *)
(* strings, so that str.lower(), str.split(), slicing and the `in`         *)
(* substring test are computed, not assumed.                               *)
(***************************************************************************)
EXTENDS Integers, Sequences, FiniteSets, TLC

VARIABLES
    surface,    \* entry surface of the request being answered: "none", "http", "tool"
    req,        \* the request: [issue_text, priority_keywords]
    similar,    \* what the external service did for the retrieval of that request
    resp,       \* the response returned to the caller
    prev,       \* the request/response this one is a keyword-extension of, or None
    environ,    \* os.environ of the server processes: WEAVIATE_URL, WEAVIATE_API_KEY
    weaviate_client, \* the global connection handle of each server process
    service,    \* what the external service holds and which calls of the invocation it fails
    call,       \* the invocation being answered: operation, surface, arguments
    net,        \* the network calls the invocation made, in order
    out,        \* the result the invocation returned
    api_environ, \* os.environ of the tool binding: API_BASE_URL, API_BEARER_TOKEN
    config_file, \* ~/.api/config.json
    config,     \* the Config object the last get_config() built
    ingest      \* one run of load_and_ingest_data: the file, its locals, the batches written

scorerVars == <<surface, req, similar, resp, prev>>
serverVars == <<environ, weaviate_client, service, call, net, out>>
bindingVars == <<api_environ, config_file, config>>

vars == <<surface, req, similar, resp, prev,
          environ, weaviate_client, service, call, net, out,
          api_environ, config_file, config, ingest>>

\* ------------------------------------------------------------------ bounds

\* Longest priority_keywords list a caller passes.
MaxKeywords == 2
\* Most neighbors the external service returns for one retrieval.
MaxNeighbors == 4

\* ------------------------------------------------------------------ values

None == "None"          \* Python None / JSON null
Absent == "Absent"      \* a key that the returned dict does not have

NOTE == "Analysis based on keywords only - vector search unavailable"
SENTINEL == "No priority indicators found"

\* ------------------------------------------------------------------ strings

UpperChars == <<"A","B","C","D","E","F","G","H","I","J","K","L","M",
                "N","O","P","Q","R","S","T","U","V","W","X","Y","Z">>
LowerChars == <<"a","b","c","d","e","f","g","h","i","j","k","l","m",
                "n","o","p","q","r","s","t","u","v","w","x","y","z">>

UpperSet == {UpperChars[i] : i \in 1..26}
LowerOf == [c \in UpperSet |-> LowerChars[CHOOSE i \in 1..26 : UpperChars[i] = c]]

\* str.lower() on one character.
LowerChar(c) == IF c \in UpperSet THEN LowerOf[c] ELSE c

\* str.lower()
Lower(s) == [i \in 1..Len(s) |-> LowerChar(s[i])]

\* Python's `k in t` for strings: k occurs in t as a contiguous substring
\* (the empty string occurs in every string).
Contains(t, k) ==
    \E i \in 0..(Len(t) - Len(k)) : \A j \in 1..Len(k) : t[i + j] = k[j]

\* Number of places at which k occurs in t.
Occurrences(t, k) ==
    Cardinality({i \in 0..(Len(t) - Len(k)) : SubSeq(t, i + 1, i + Len(k)) = k})

\* ------------------------------------------------------------------ program constants

\* The default priority_keywords list.
DefaultKeywords ==
    << <<"c","r","i","t","i","c","a","l">>,
       <<"u","r","g","e","n","t">>,
       <<"c","r","a","s","h">>,
       <<"b","u","g">>,
       <<"e","r","r","o","r">>,
       <<"b","r","o","k","e","n">>,
       <<"s","e","c","u","r","i","t","y">>,
       <<"v","u","l","n","e","r","a","b","i","l","i","t","y">>,
       <<"d","a","t","a"," ","l","o","s","s">>,
       <<"p","e","r","f","o","r","m","a","n","c","e">>,
       <<"r","e","g","r","e","s","s","i","o","n">>,
       <<"b","l","o","c","k","e","r">>,
       <<"p","r","o","d","u","c","t","i","o","n">>,
       <<"o","u","t","a","g","e">> >>

\* priority_labels of the neighbor analysis.
priority_labels ==
    << <<"c","r","i","t","i","c","a","l">>,
       <<"h","i","g","h"," ","p","r","i","o","r","i","t","y">>,
       <<"u","r","g","e","n","t">>,
       <<"b","u","g">>,
       <<"s","e","c","u","r","i","t","y">> >>

\* limit= of the retrieval the priority scorer issues.
PriorityRetrievalLimit == 10

\* ------------------------------------------------------------------ inputs

\* "Update docs"
TextDocs == <<"U","p","d","a","t","e"," ","d","o","c","s">>
\* "URGENT: Critical security vulnerability causing data loss"
TextUrgent ==
    <<"U","R","G","E","N","T",":"," ","C","r","i","t","i","c","a","l"," ",
      "s","e","c","u","r","i","t","y"," ",
      "v","u","l","n","e","r","a","b","i","l","i","t","y"," ",
      "c","a","u","s","i","n","g"," ","d","a","t","a"," ","l","o","s","s">>
\* "Bug: crash bug"
TextBug == <<"B","u","g",":"," ","c","r","a","s","h"," ","b","u","g">>

\* issue_text values: the empty string, a text without any default keyword, the
\* text with five default keywords, and a text that holds "bug" twice.
IssueTexts == {<<>>, TextDocs, TextUrgent, TextBug}

KwBug == <<"b","u","g">>
KwBugCap == <<"B","u","g">>

\* Keywords a caller puts into priority_keywords.
KeywordPool == {KwBug, KwBugCap}

SeqsUpTo(S, n) == UNION {[1..m -> S] : m \in 0..n}

\* Optional[List[str]]: None, or a list.
NoList == [is_none |-> TRUE, items |-> <<>>]
List(l) == [is_none |-> FALSE, items |-> l]

\* priority_keywords arguments: omitted (None), or a list (possibly empty,
\* possibly with repeated entries, in any letter case).
KeywordArgs == {NoList} \cup {List(l) : l \in SeqsUpTo(KeywordPool, MaxKeywords)}

LabelDocs == <<"d","o","c","s">>
LabelBugCap == <<"B","u","g">>
LabelUrgentUpper == <<"U","R","G","E","N","T">>
LabelHighPriority == <<"H","i","g","h"," ","P","r","i","o","r","i","t","y">>

\* Stored issues the service can return as neighbors (the properties the
\* scorer reads): an open issue without priority label, a closed one with one
\* priority label, an open one with two priority labels.
IssueOpenPlain == [state |-> "open", labels |-> <<LabelDocs>>]
IssueClosedHigh == [state |-> "closed", labels |-> <<LabelUrgentUpper>>]
IssueOpenHigh == [state |-> "open", labels |-> <<LabelHighPriority, LabelBugCap>>]

StoredIssues == {IssueOpenPlain, IssueClosedHigh, IssueOpenHigh}

\* Outcomes of the near_text query: an exception (connection, configuration or
\* query failure), or the ranked objects.
ServiceOutcomes ==
    {[ok |-> FALSE, objects |-> <<>>]} \cup
    {[ok |-> TRUE, objects |-> o] : o \in SeqsUpTo(StoredIssues, MaxNeighbors)}

\* ------------------------------------------------------------------ retrieval

Min(a, b) == IF a < b THEN a ELSE b

\* The properties of a returned object that the scorer reads afterwards.
IssueData(obj) == [state |-> obj.state, labels |-> obj.labels]

\* response.objects of near_text(limit=...): the service returns at most
\* `limit` objects.
NearText(outcome, limit) ==
    SubSeq(outcome.objects, 1, Min(limit, Len(outcome.objects)))

ErrorItem == [error |-> "Failed to find similar issues"]

\* Tool server find_similar_issues: the list of results, or a one-element list
\* holding an error dict when anything raised.
tool_find_similar_issues(outcome, limit) ==
    IF outcome.ok
    THEN [i \in 1..Len(NearText(outcome, limit)) |-> IssueData(NearText(outcome, limit)[i])]
    ELSE <<ErrorItem>>

\* HTTP find_similar_issues: a SimilarIssuesResponse, or HTTPException(500).
http_find_similar_issues(outcome, limit) ==
    IF outcome.ok
    THEN [raised |-> FALSE,
          similar_issues |->
              [i \in 1..Len(NearText(outcome, limit)) |-> IssueData(NearText(outcome, limit)[i])]]
    ELSE [raised |-> TRUE, similar_issues |-> <<>>]

\* ------------------------------------------------------------------ scoring

\* HTTP: `request.priority_keywords or [defaults]` (None and [] are falsy).
http_priority_keywords(arg) ==
    IF arg.is_none \/ arg.items = <<>> THEN DefaultKeywords ELSE arg.items

\* Variant: the tool server tests `if not priority_keywords` (an empty list is
\* replaced by the defaults as well).
tool_priority_keywords_Falsy(arg) ==
    IF arg.is_none \/ arg.items = <<>> THEN DefaultKeywords ELSE arg.items

\* Tool server: `if priority_keywords is None: priority_keywords = [defaults]`.
tool_priority_keywords(arg) ==
    IF arg.is_none THEN DefaultKeywords ELSE arg.items

\* Forwarding binding: `if priority_keywords: payload["priority_keywords"] = ...`;
\* a missing payload field reaches the HTTP request model as None.
registry_payload_keywords(arg) ==
    IF arg.is_none \/ arg.items = <<>> THEN NoList ELSE arg

\* `if keyword in issue_lower` (the keyword is used as given).
KeywordHit(keyword, issue_lower) == Contains(issue_lower, keyword)

\* for keyword in priority_keywords: if keyword in issue_lower:
\*     found_keywords.append(keyword); priority_score += 2
RECURSIVE KeywordLoop(_, _, _, _)
KeywordLoop(priority_keywords, issue_lower, i, acc) ==
    IF i > Len(priority_keywords) THEN acc
    ELSE KeywordLoop(priority_keywords, issue_lower, i + 1,
            IF KeywordHit(priority_keywords[i], issue_lower)
            THEN [found_keywords |-> Append(acc.found_keywords, priority_keywords[i]),
                  priority_score |-> acc.priority_score + 2]
            ELSE acc)

\* Variant: a keyword is appended, and scored, once per occurrence in the text.
RECURSIVE Repeated(_, _)
Repeated(k, n) == IF n = 0 THEN <<>> ELSE Append(Repeated(k, n - 1), k)
RECURSIVE PerOccurrenceLoop(_, _, _)
PerOccurrenceLoop(priority_keywords, issue_lower, i) ==
    IF i = 0 THEN <<>>
    ELSE PerOccurrenceLoop(priority_keywords, issue_lower, i - 1)
         \o Repeated(priority_keywords[i], Occurrences(issue_lower, priority_keywords[i]))
KeywordScan_PerOccurrence(priority_keywords, issue_text) ==
    LET found == PerOccurrenceLoop(priority_keywords, Lower(issue_text), Len(priority_keywords))
    IN  [found_keywords |-> found, priority_score |-> 2 * Len(found)]

KeywordScan(priority_keywords, issue_text) ==
    KeywordLoop(priority_keywords, Lower(issue_text), 1,
                [found_keywords |-> <<>>, priority_score |-> 0])

\* Variant: the label is compared as stored, without lower().
HasPriorityLabel_CaseSensitive(labels) ==
    \E i \in 1..Len(labels) :
        \E j \in 1..Len(priority_labels) : labels[i] = priority_labels[j]

\* any(label.lower() in priority_labels for label in labels)
HasPriorityLabel(labels) ==
    \E i \in 1..Len(labels) :
        LET label_lower == Lower(labels[i])
        IN  \E j \in 1..Len(priority_labels) : label_lower = priority_labels[j]

\* for issue in similar_issues: count open ones; count those with a priority
\* label and add 1 to the score for each of them.
RECURSIVE NeighborLoop(_, _, _)
NeighborLoop(similar_issues, i, acc) ==
    IF i > Len(similar_issues) THEN acc
    ELSE LET hit == IF HasPriorityLabel(similar_issues[i].labels) THEN 1 ELSE 0
         IN  NeighborLoop(similar_issues, i + 1,
                [similar_open_count |->
                     acc.similar_open_count
                     + (IF similar_issues[i].state = "open" THEN 1 ELSE 0),
                 similar_high_priority |-> acc.similar_high_priority + hit,
                 priority_score |-> acc.priority_score + hit])

\* Variant: more than three open neighbors add 1.
OpenBonus_One(similar_open_count) == IF similar_open_count > 3 THEN 1 ELSE 0

\* if similar_open_count > 3: priority_score += 2
OpenBonus(similar_open_count) == IF similar_open_count > 3 THEN 2 ELSE 0

\* if similar_high_priority > 0: priority_score += similar_high_priority
HighBonus(similar_high_priority) ==
    IF similar_high_priority > 0 THEN similar_high_priority ELSE 0

\* Variant: Critical only above 8.
FullLevel_Above8(priority_score) ==
    IF priority_score > 8 THEN "Critical"
    ELSE IF priority_score >= 5 THEN "High"
    ELSE IF priority_score >= 2 THEN "Medium"
    ELSE "Low"

\* Level thresholds of the full path.
FullLevel(priority_score) ==
    IF priority_score >= 8 THEN "Critical"
    ELSE IF priority_score >= 5 THEN "High"
    ELSE IF priority_score >= 2 THEN "Medium"
    ELSE "Low"

\* Variant: the fallback uses the thresholds of the full path.
FallbackLevel_AsFull(priority_score) == FullLevel(priority_score)

\* Level thresholds of the keyword-only fallback.
FallbackLevel(priority_score) ==
    IF priority_score >= 4 THEN "High"
    ELSE IF priority_score >= 2 THEN "Medium"
    ELSE "Low"

\* One reasoning string: its fixed text and the value formatted into it.
Line(text, keywords, count) == [text |-> text, keywords |-> keywords, count |-> count]

\* The reasoning lines of the full path, in the order the rules are evaluated.
FullReasoning(found_keywords, similar_open_count, similar_high_priority) ==
    (IF found_keywords # <<>>
     THEN <<Line("Contains priority keywords", found_keywords, 0)>> ELSE <<>>)
    \o (IF similar_open_count > 3
        THEN <<Line("Multiple similar open issues found", <<>>, similar_open_count)>>
        ELSE <<>>)
    \o (IF similar_high_priority > 0
        THEN <<Line("Similar issues have priority labels", <<>>, similar_high_priority)>>
        ELSE <<>>)

\* Variant: the top list is similar_issues[-3:], the last three.
FullAnalysis_LastThree(priority_keywords, issue_text, similar_issues) ==
    LET kw == KeywordScan(priority_keywords, issue_text)
        nb == NeighborLoop(similar_issues, 1,
                  [similar_open_count |-> 0, similar_high_priority |-> 0,
                   priority_score |-> kw.priority_score])
        score == nb.priority_score + OpenBonus(nb.similar_open_count)
                 + HighBonus(nb.similar_high_priority)
        n == Len(similar_issues)
    IN  [priority_level |-> FullLevel(score),
         priority_score |-> score,
         reasoning |-> FullReasoning(kw.found_keywords, nb.similar_open_count,
                                     nb.similar_high_priority),
         similar_issues_count |-> n,
         similar_open_issues |-> nb.similar_open_count,
         found_keywords |-> kw.found_keywords,
         top_similar_issues |-> SubSeq(similar_issues, n - Min(3, n) + 1, n)]

\* Everything the full path computes from the keyword list and the neighbors.
FullAnalysis(priority_keywords, issue_text, similar_issues) ==
    LET kw == KeywordScan(priority_keywords, issue_text)
        nb == NeighborLoop(similar_issues, 1,
                  [similar_open_count |-> 0, similar_high_priority |-> 0,
                   priority_score |-> kw.priority_score])
        score == nb.priority_score + OpenBonus(nb.similar_open_count)
                 + HighBonus(nb.similar_high_priority)
    IN  [priority_level |-> FullLevel(score),
         priority_score |-> score,
         reasoning |-> FullReasoning(kw.found_keywords, nb.similar_open_count,
                                     nb.similar_high_priority),
         similar_issues_count |-> Len(similar_issues),
         similar_open_issues |-> nb.similar_open_count,
         found_keywords |-> kw.found_keywords,
         top_similar_issues |-> SubSeq(similar_issues, 1, Min(3, Len(similar_issues)))]

\* ------------------------------------------------------------------ responses

FullKeys == {"priority_level", "priority_score", "reasoning", "similar_issues_count",
             "similar_open_issues", "found_keywords", "top_similar_issues"}
FallbackKeys == {"priority_level", "priority_score", "reasoning", "found_keywords", "note"}

\* A response: the fields it carries (keys) and their values; a field it does
\* not carry holds a filler of the field's type.
NoResponse ==
    [status |-> "none", keys |-> {}, priority_level |-> "", priority_score |-> 0,
     reasoning |-> <<>>, similar_issues_count |-> 0, similar_open_issues |-> 0,
     found_keywords |-> <<>>, top_similar_issues |-> <<>>, note |-> Absent]

\* HTTPException(status_code=500, detail=...)
HttpError == [NoResponse EXCEPT !.status = "error", !.keys = {"detail"}]

\* `reasoning if reasoning else ["No priority indicators found"]`
HttpReasoning(reasoning) ==
    IF reasoning # <<>> THEN reasoning ELSE <<Line(SENTINEL, <<>>, 0)>>

\* Tool server, full path: "reasoning": reasoning
ToolReasoning(reasoning) == reasoning

\* POST /priority-hint
http_get_priority_hint(issue_text, arg, outcome) ==
    LET priority_keywords == http_priority_keywords(arg)
        similar_response == http_find_similar_issues(outcome, PriorityRetrievalLimit)
        a == FullAnalysis(priority_keywords, issue_text, similar_response.similar_issues)
    IN  IF similar_response.raised
        THEN HttpError
        ELSE [status |-> "ok",
              keys |-> FullKeys \cup {"note"},
              priority_level |-> a.priority_level,
              priority_score |-> a.priority_score,
              reasoning |-> HttpReasoning(a.reasoning),
              similar_issues_count |-> a.similar_issues_count,
              similar_open_issues |-> a.similar_open_issues,
              found_keywords |-> a.found_keywords,
              top_similar_issues |-> a.top_similar_issues,
              note |-> None]

\* Tool server, else branch: keyword-only analysis.
ToolFallback(priority_keywords, issue_text) ==
    LET kw == KeywordScan(priority_keywords, issue_text)
    IN  [NoResponse EXCEPT
            !.status = "ok",
            !.keys = FallbackKeys,
            !.priority_level = FallbackLevel(kw.priority_score),
            !.priority_score = kw.priority_score,
            !.reasoning = IF kw.found_keywords # <<>>
                          THEN <<Line("Based on keywords", kw.found_keywords, 0)>>
                          ELSE <<Line(SENTINEL, <<>>, 0)>>,
            !.found_keywords = kw.found_keywords,
            !.note = NOTE]

\* Variant: an empty result counts as usable.
RetrievalUsable_AcceptsEmpty(similar_issues) ==
    Len(similar_issues) = 0 \/ "error" \notin DOMAIN similar_issues[1]

\* isinstance(similar_issues, list) and len(similar_issues) > 0
\*     and "error" not in similar_issues[0]
RetrievalUsable(similar_issues) ==
    /\ Len(similar_issues) > 0
    /\ "error" \notin DOMAIN similar_issues[1]

\* Tool server get_priority_hint
tool_get_priority_hint(issue_text, arg, outcome) ==
    LET priority_keywords == tool_priority_keywords(arg)
        similar_issues == tool_find_similar_issues(outcome, PriorityRetrievalLimit)
        a == FullAnalysis(priority_keywords, issue_text, similar_issues)
    IN  IF RetrievalUsable(similar_issues)
        THEN [status |-> "ok",
              keys |-> FullKeys,
              priority_level |-> a.priority_level,
              priority_score |-> a.priority_score,
              reasoning |-> ToolReasoning(a.reasoning),
              similar_issues_count |-> a.similar_issues_count,
              similar_open_issues |-> a.similar_open_issues,
              found_keywords |-> a.found_keywords,
              top_similar_issues |-> a.top_similar_issues,
              note |-> Absent]
        ELSE ToolFallback(priority_keywords, issue_text)

\* The scorer behind a surface.
Scorer(s, issue_text, arg, outcome) ==
    IF s = "http" THEN http_get_priority_hint(issue_text, arg, outcome)
    ELSE tool_get_priority_hint(issue_text, arg, outcome)

\* ------------------------------------------------------------------ stored records

\* Longest issue_ids list a caller passes to the summarizer.
MaxIds == 2
\* Most objects the service returns for one similarity or label query.
MaxObjects == 2

LabelTop == 5           \* sorted(label_counts.items(), ...)[:5]
ThemeTop == 10          \* sorted(word_counts.items(), ...)[:10]
ShortWord == 3          \* if len(word) > 3
BulkLimit == 100        \* fetch_objects(limit=100)
BodyLimit == 200        \* body[:200] + "..." if len(body) > 200

Space == <<" ">>

WCrash == <<"C","r","a","s","h">>
WCrashLower == <<"c","r","a","s","h">>
WOn == <<"o","n">>
WLogin == <<"l","o","g","i","n">>
WPage == <<"p","a","g","e">>
WWhen == <<"w","h","e","n">>
WUpload == <<"u","p","l","o","a","d">>
WFails == <<"f","a","i","l","s">>
WWith == <<"w","i","t","h">>
WTimeout == <<"t","i","m","e","o","u","t">>
WDocs == <<"D","o","c","s">>
WTypo == <<"t","y","p","o">>
WIn == <<"i","n">>
WError == <<"e","r","r","o","r">>
WFile == <<"f","i","l","e">>
WSize == <<"s","i","z","e">>
WLimit == <<"l","i","m","i","t">>
WFix == <<"F","i","x">>

\* "Crash on login page when upload fails with timeout"
TitleCrash ==
    WCrash \o Space \o WOn \o Space \o WLogin \o Space \o WPage \o Space \o
    WWhen \o Space \o WUpload \o Space \o WFails \o Space \o WWith \o Space \o
    WTimeout

\* "Docs typo in error page  crash\tfile size limit " (a double blank, a tab
\* and a trailing blank)
TitleDocs ==
    WDocs \o Space \o WTypo \o Space \o WIn \o Space \o WError \o Space \o
    WPage \o Space \o Space \o WCrashLower \o <<"\t">> \o WFile \o Space \o
    WSize \o Space \o WLimit \o Space

\* "Fix typo"
TitleFix == WFix \o Space \o WTypo

\* The properties of a stored object.  A property the object does not have is
\* Absent; a property stored as null is None.
RecCrash ==
    [issue_id |-> 1, title |-> TitleCrash, state |-> "open",
     labels |-> <<"bug", "ui", "auth", "p1">>,
     is_pull_request |-> None, author_login |-> "alice"]
RecDocs ==
    [issue_id |-> 2, title |-> TitleDocs, state |-> "closed",
     labels |-> <<"docs", "ui", "bug", "good first issue", "help wanted", "bug">>,
     is_pull_request |-> "true", author_login |-> "bob"]
RecDraft ==
    [issue_id |-> 3, title |-> TitleFix, state |-> "draft",
     labels |-> <<>>,
     is_pull_request |-> Absent, author_login |-> ""]
\* A second object stored under issue_id 1.
RecCrashAgain ==
    [issue_id |-> 1, title |-> TitleFix, state |-> "closed",
     labels |-> <<"wontfix">>,
     is_pull_request |-> "false", author_login |-> "alice"]

\* The collection, in the order in which the service lists it.
Collection == <<RecCrash, RecDocs, RecDraft, RecCrashAgain>>

\* Identifiers a caller asks for; 9 is stored nowhere.
IssueIds == {1, 2, 3, 9}
IssueIdLists == SeqsUpTo(IssueIds, MaxIds)

SummaryTypes == {"brief", "detailed", "themes", "full"}

\* obj.properties.get(key, default)
PropGet(value, default) == IF value = Absent THEN default ELSE value

\* Python truth value of a stored flag (bool or null).
Truthy(value) == value \notin {None, "false"}

\* Python truth value of a string or null.
NonEmpty(value) == value \notin {None, ""}

\* ------------------------------------------------------------------ summary report

\* The dict built for one resolved object (main.py 187-196, 203-212).
IssueDict(obj) ==
    [id |-> obj.issue_id,
     title |-> obj.title,
     state |-> obj.state,
     labels |-> PropGet(obj.labels, <<>>),
     is_pull_request |-> PropGet(obj.is_pull_request, "false"),
     author_login |-> obj.author_login]

\* len([i for i in issues if i["state"] == state])
StateCount(issues, state) ==
    Cardinality({i \in 1..Len(issues) : issues[i].state = state})

\* len([i for i in issues if i["is_pull_request"]])
PullRequestCount(issues) ==
    Cardinality({i \in 1..Len(issues) : Truthy(issues[i].is_pull_request)})

\* Variant: only a flag stored as false counts as "not a pull request".
NonPullRequestCount_ExplicitFalse(issues) ==
    Cardinality({i \in 1..Len(issues) : issues[i].is_pull_request = "false"})

\* len([i for i in issues if not i["is_pull_request"]])
NonPullRequestCount(issues) ==
    Cardinality({i \in 1..Len(issues) : ~Truthy(issues[i].is_pull_request)})

\* all_labels.extend(issue.get("labels", [])) for each issue
RECURSIVE AllLabels(_, _)
AllLabels(issues, i) ==
    IF i > Len(issues) THEN <<>>
    ELSE issues[i].labels \o AllLabels(issues, i + 1)

\* counts[key] = counts.get(key, 0) + 1 on a dict, which keeps its keys in the
\* order of their first insertion: a sequence of [k, v] items.
Increment(counts, key) ==
    IF \E i \in 1..Len(counts) : counts[i].k = key
    THEN [i \in 1..Len(counts) |->
             IF counts[i].k = key THEN [k |-> key, v |-> counts[i].v + 1]
             ELSE counts[i]]
    ELSE Append(counts, [k |-> key, v |-> 1])

RECURSIVE CountLoop(_, _, _)
CountLoop(keys, i, counts) ==
    IF i > Len(keys) THEN counts
    ELSE CountLoop(keys, i + 1, Increment(counts, keys[i]))

\* Variant: an item goes in front of the items of equal count.
InsertByCount_BeforeEqual(sorted, item) ==
    LET before == {i \in 1..Len(sorted) : sorted[i].v > item.v}
        p == Cardinality(before)
    IN  SubSeq(sorted, 1, p) \o <<item>> \o SubSeq(sorted, p + 1, Len(sorted))

\* One step of sorted(items, key=lambda x: x[1], reverse=True): the sort is
\* stable, so an item goes behind every item of a greater or equal count.
InsertByCount(sorted, item) ==
    LET before == {i \in 1..Len(sorted) : sorted[i].v >= item.v}
        p == Cardinality(before)
    IN  SubSeq(sorted, 1, p) \o <<item>> \o SubSeq(sorted, p + 1, Len(sorted))

RECURSIVE SortLoop(_, _, _)
SortLoop(items, i, sorted) ==
    IF i > Len(items) THEN sorted
    ELSE SortLoop(items, i + 1, InsertByCount(sorted, items[i]))

\* sorted(counts.items(), key=lambda x: x[1], reverse=True)[:n]
TopByCount(counts, n) ==
    LET sorted == SortLoop(counts, 1, <<>>)
    IN  SubSeq(sorted, 1, Min(n, Len(sorted)))

common_labels(issues) ==
    TopByCount(CountLoop(AllLabels(issues, 1), 1, <<>>), LabelTop)

\* list(set(i["author_login"] for i in issues if i["author_login"])): the
\* order of the list is the set's, which the code does not fix.
authors(issues) ==
    {issues[i].author_login : i \in {j \in 1..Len(issues) : NonEmpty(issues[j].author_login)}}

\* " ".join([i["title"] for i in issues])
RECURSIVE JoinTitles(_, _)
JoinTitles(issues, i) ==
    IF i > Len(issues) THEN <<>>
    ELSE IF i = Len(issues) THEN issues[i].title
    ELSE issues[i].title \o Space \o JoinTitles(issues, i + 1)

Whitespace == {" ", "\t", "\n"}

\* str.split(): the maximal runs of non-whitespace characters, in order.
WordStarts(s) ==
    {i \in 1..Len(s) : s[i] \notin Whitespace /\ (i = 1 \/ s[i - 1] \in Whitespace)}

WordEnd(s, start) ==
    CHOOSE e \in start..Len(s) :
        /\ \A j \in start..e : s[j] \notin Whitespace
        /\ e = Len(s) \/ s[e + 1] \in Whitespace

Split(s) ==
    LET starts == WordStarts(s)
        nth(k) == CHOOSE i \in starts : Cardinality({j \in starts : j <= i}) = k
    IN  [k \in 1..Cardinality(starts) |-> SubSeq(s, nth(k), WordEnd(s, nth(k)))]

\* Variant: only the words shorter than three characters are skipped.
LongWords_FromThree(words) == SelectSeq(words, LAMBDA w : Len(w) >= ShortWord)

\* for word in words: if len(word) > 3: word_counts[word] = ...
LongWords(words) == SelectSeq(words, LAMBDA w : Len(w) > ShortWord)

common_themes(issues) ==
    LET all_titles == Lower(JoinTitles(issues, 1))
        words == Split(all_titles)
    IN  TopByCount(CountLoop(LongWords(words), 1, <<>>), ThemeTop)

\* ------------------------------------------------------------------ service calls

\* Which network calls of one invocation the external service fails: `first`
\* is the position, among the network calls of the invocation, of the first
\* call that fails (0: none fails); `again` tells whether the calls after it
\* fail too.
NoFaults == [first |-> 0, again |-> FALSE]
Faults ==
    {NoFaults} \cup
    {[first |-> f, again |-> a] : f \in 1..(MaxIds + 1), a \in BOOLEAN}

\* The same for an invocation that makes one query, after connecting if it has
\* to.
QueryFaults == {f \in Faults : f.first <= 2 /\ ~f.again}

Fails(faults, position) ==
    /\ faults.first # 0
    /\ \/ position = faults.first
       \/ position > faults.first /\ faults.again

\* One network call as the invocation made it.
NetCall(kind, limit, where, ok) ==
    [kind |-> kind, limit |-> limit, where |-> where, ok |-> ok]

Connection == "WeaviateClient"

ConfigMessage == "WEAVIATE_URL and WEAVIATE_API_KEY environment variables must be set"
ServiceMessage == "str(e) of the exception the service client raised"
HttpExceptionText == "str(e) of the HTTPException get_weaviate_client raised"
NotFoundMessage == "No issues found for the provided IDs"

Detail(prefix, cause) == [prefix |-> prefix, cause |-> cause]
NoDetail == Detail("", "")

\* Variant: there is no global handle; every call connects.
get_weaviate_client_Reconnects(env, handle, faults) ==
    IF ~NonEmpty(env.WEAVIATE_URL) \/ ~NonEmpty(env.WEAVIATE_API_KEY)
    THEN [raised |-> "config", client |-> None, net |-> <<>>]
    ELSE IF Fails(faults, 1)
    THEN [raised |-> "service", client |-> None,
          net |-> <<NetCall("connect", 0, <<>>, FALSE)>>]
    ELSE [raised |-> "", client |-> Connection,
          net |-> <<NetCall("connect", 0, <<>>, TRUE)>>]

\* Variant: only the URL is required.
get_weaviate_client_UrlOnly(env, handle, faults) ==
    IF handle # None
    THEN [raised |-> "", client |-> handle, net |-> <<>>]
    ELSE IF ~NonEmpty(env.WEAVIATE_URL)
    THEN [raised |-> "config", client |-> None, net |-> <<>>]
    ELSE IF Fails(faults, 1)
    THEN [raised |-> "service", client |-> None,
          net |-> <<NetCall("connect", 0, <<>>, FALSE)>>]
    ELSE [raised |-> "", client |-> Connection,
          net |-> <<NetCall("connect", 0, <<>>, TRUE)>>]

\* get_weaviate_client() of either server: the handle if there is one; else
\* the configuration error; else connect, and keep the handle if that worked.
get_weaviate_client(env, handle, faults) ==
    IF handle # None
    THEN [raised |-> "", client |-> handle, net |-> <<>>]
    ELSE IF ~NonEmpty(env.WEAVIATE_URL) \/ ~NonEmpty(env.WEAVIATE_API_KEY)
    THEN [raised |-> "config", client |-> None, net |-> <<>>]
    ELSE IF Fails(faults, 1)
    THEN [raised |-> "service", client |-> None,
          net |-> <<NetCall("connect", 0, <<>>, FALSE)>>]
    ELSE [raised |-> "", client |-> Connection,
          net |-> <<NetCall("connect", 0, <<>>, TRUE)>>]

\* response.objects of fetch_objects(limit=...)
FetchObjects(limit) == SubSeq(Collection, 1, Min(limit, Len(Collection)))

\* response.objects of fetch_objects(where=issue_id equal ..., limit=...)
FetchEqual(issue_id, limit) ==
    LET hits == SelectSeq(Collection, LAMBDA obj : obj.issue_id = issue_id)
    IN  SubSeq(hits, 1, Min(limit, Len(hits)))

\* ------------------------------------------------------------------ summarizer

NoBody == [keys |-> {}]

\* The value an invocation returns: an HTTP status (0 on the tool server, which
\* returns a plain value), the error text if any, the payload.
Result(status, code, detail, body) ==
    [status |-> status, code |-> code, detail |-> detail, body |-> body]

NoResult == Result("none", 0, NoDetail, NoBody)

HttpFailure(code, detail) == Result("error", code, detail, NoBody)
ToolFailure(detail) == Result("error", 0, detail, [keys |-> {"error"}])

\* for obj in all_issues: if obj.properties.get("issue_id") == issue_id: ... break
FirstMatch(objects, issue_id) ==
    LET hits == SelectSeq(objects, LAMBDA obj : obj.issue_id = issue_id)
    IN  IF hits = <<>> THEN <<>> ELSE <<IssueDict(hits[1])>>

\* for issue_id in request.issue_ids: ...
RECURSIVE ResolveBulk(_, _, _)
ResolveBulk(issue_ids, i, objects) ==
    IF i > Len(issue_ids) THEN <<>>
    ELSE FirstMatch(objects, issue_ids[i]) \o ResolveBulk(issue_ids, i + 1, objects)

\* for obj in response.objects: issues.append({...})
Sample(objects) == [i \in 1..Len(objects) |-> IssueDict(objects[i])]

\* main.py 219-250: the SummaryResponse of a non-empty issue list.
HttpReport(issues, summary_type) ==
    [keys |-> {"total_issues", "open_issues", "closed_issues", "pull_requests",
               "issues", "common_labels", "authors", "common_themes",
               "issue_details"},
     total_issues |-> Len(issues),
     open_issues |-> StateCount(issues, "open"),
     closed_issues |-> StateCount(issues, "closed"),
     pull_requests |-> PullRequestCount(issues),
     issues |-> NonPullRequestCount(issues),
     common_labels |-> common_labels(issues),
     authors |-> authors(issues),
     common_themes |-> IF summary_type = "themes"
                       THEN List(common_themes(issues)) ELSE NoList,
     issue_details |-> IF summary_type = "detailed" THEN List(issues) ELSE NoList]

\* issue_triage_server.py 142-176: the summary dict of a non-empty issue list.
ToolReport(issues, summary_type) ==
    [keys |-> {"total_issues", "open_issues", "closed_issues", "pull_requests",
               "issues", "common_labels", "authors"}
              \cup (IF summary_type = "detailed" THEN {"issue_details"}
                    ELSE IF summary_type = "themes" THEN {"common_themes"}
                    ELSE {}),
     total_issues |-> Len(issues),
     open_issues |-> StateCount(issues, "open"),
     closed_issues |-> StateCount(issues, "closed"),
     pull_requests |-> PullRequestCount(issues),
     issues |-> NonPullRequestCount(issues),
     common_labels |-> common_labels(issues),
     authors |-> authors(issues),
     common_themes |-> IF summary_type = "themes"
                       THEN List(common_themes(issues)) ELSE NoList,
     issue_details |-> IF summary_type = "detailed" THEN List(issues) ELSE NoList]

\* main.py summarize_issues: the result, the handle afterwards, the network
\* calls made and the local list `issues`.
http_summarize_issues(issue_ids, summary_type, env, handle, faults) ==
    LET c == get_weaviate_client(env, handle, faults)
        n == Len(c.net)
        bulk_ok == ~Fails(faults, n + 1)
        bulk == NetCall("fetch_objects", BulkLimit, <<>>, bulk_ok)
        sample_ok == ~Fails(faults, n + 2)
        sample == NetCall("fetch_objects", Len(issue_ids), <<>>, sample_ok)
        issues == IF bulk_ok
                  THEN ResolveBulk(issue_ids, 1, FetchObjects(BulkLimit))
                  ELSE IF sample_ok THEN Sample(FetchObjects(Len(issue_ids)))
                  ELSE <<>>
        calls == c.net \o <<bulk>> \o (IF bulk_ok THEN <<>> ELSE <<sample>>)
    IN  IF c.raised = "config"
        THEN [out |-> HttpFailure(500, Detail(ConfigMessage, "")),
              client |-> c.client, net |-> c.net, issues |-> <<>>]
        ELSE IF c.raised = "service"
        THEN [out |-> HttpFailure(500, Detail("Failed to summarize issues: ", ServiceMessage)),
              client |-> c.client, net |-> c.net, issues |-> <<>>]
        ELSE IF ~bulk_ok /\ ~sample_ok
        THEN [out |-> HttpFailure(500, Detail("Failed to summarize issues: ", ServiceMessage)),
              client |-> c.client, net |-> calls, issues |-> issues]
        ELSE IF issues = <<>>
        THEN [out |-> HttpFailure(404, Detail(NotFoundMessage, "")),
              client |-> c.client, net |-> calls, issues |-> issues]
        ELSE [out |-> Result("ok", 200, NoDetail, HttpReport(issues, summary_type)),
              client |-> c.client, net |-> calls, issues |-> issues]

\* issue_triage_server.py 118-136: one equality fetch per identifier, until one
\* of them raises.  n is the number of network calls made before.
RECURSIVE ToolResolveLoop(_, _, _, _, _, _)
ToolResolveLoop(issue_ids, i, n, faults, issues, calls) ==
    IF i > Len(issue_ids)
    THEN [raised |-> FALSE, issues |-> issues, net |-> calls]
    ELSE IF Fails(faults, n + 1)
    THEN [raised |-> TRUE, issues |-> issues,
          net |-> Append(calls, NetCall("fetch_objects", 1, <<issue_ids[i]>>, FALSE))]
    ELSE LET objects == FetchEqual(issue_ids[i], 1)
         IN  ToolResolveLoop(issue_ids, i + 1, n + 1, faults,
                 IF objects # <<>> THEN Append(issues, IssueDict(objects[1])) ELSE issues,
                 Append(calls, NetCall("fetch_objects", 1, <<issue_ids[i]>>, TRUE)))

\* issue_triage_server.py summarize_issues
tool_summarize_issues(issue_ids, summary_type, env, handle, faults) ==
    LET c == get_weaviate_client(env, handle, faults)
        r == ToolResolveLoop(issue_ids, 1, Len(c.net), faults, <<>>, c.net)
    IN  IF c.raised # ""
        THEN [out |-> ToolFailure(Detail("Failed to summarize issues: ",
                          IF c.raised = "config" THEN ConfigMessage ELSE ServiceMessage)),
              client |-> c.client, net |-> c.net, issues |-> <<>>]
        ELSE IF r.raised
        THEN [out |-> ToolFailure(Detail("Failed to summarize issues: ", ServiceMessage)),
              client |-> c.client, net |-> r.net, issues |-> r.issues]
        ELSE IF r.issues = <<>>
        THEN [out |-> ToolFailure(Detail(NotFoundMessage, "")),
              client |-> c.client, net |-> r.net, issues |-> r.issues]
        ELSE [out |-> Result("ok", 0, NoDetail, ToolReport(r.issues, summary_type)),
              client |-> c.client, net |-> r.net, issues |-> r.issues]

\* ------------------------------------------------------------------ similarity retriever

\* A body of n characters.
BodyText(n) == [i \in 1..n |-> <<"a", "b", "c">>[(i % 3) + 1]]

\* The body property of a stored object: a string, null, or not there.
Str(text) == [is |-> "str", text |-> text]
Null == [is |-> "null", text |-> <<>>]
Missing == [is |-> "missing", text |-> <<>>]

\* obj.properties.get("body", "")
GetBody(obj) == IF obj.body = Missing THEN Str(<<>>) ELSE obj.body

Ellipsis == <<".", ".", ".">>

\* Objects a similarity or label query returns: bodies of 3, 200 and 201
\* characters, an object without body, an object whose body is null.
ObjShort == [issue_id |-> 1, body |-> Str(BodyText(3)), state |-> "open", labels |-> <<LabelDocs>>]
ObjExact == [issue_id |-> 2, body |-> Str(BodyText(BodyLimit)), state |-> "closed", labels |-> <<LabelUrgentUpper>>]
ObjOver == [issue_id |-> 3, body |-> Str(BodyText(BodyLimit + 1)), state |-> "open", labels |-> <<LabelBugCap>>]
ObjNoBody == [issue_id |-> 4, body |-> Missing, state |-> "open", labels |-> <<>>]
ObjNullBody == [issue_id |-> 5, body |-> Null, state |-> "closed", labels |-> <<>>]

QueryObjects == {ObjShort, ObjExact, ObjOver, ObjNoBody, ObjNullBody}
QueryResults == SeqsUpTo(QueryObjects, MaxObjects)

\* Answers to the queries of the label search and of the scorer, which do not
\* pass the body on.
ShortResults == SeqsUpTo({ObjShort, ObjNullBody}, MaxObjects)

\* A collection in which more objects are near the text than the scorer asks
\* for.
ManyResults == [i \in 1..(PriorityRetrievalLimit + 1) |-> ObjShort]

\* Answers to the scorer's query.
HintResults == ShortResults \cup {ManyResults}

\* The text of a similarity query; the service alone decides what is similar.
QueryTexts == {TextBug}

\* `limit` arguments: the default of /similar, one below it, and one beyond
\* the range 1..20 that SimilarIssuesRequest accepts.
Limits == {1, 5, 21}

DataMessage == "object of type 'NoneType' has no len()"

\* Variant: a body of exactly 200 characters is cut as well.
Truncate_From200(body) ==
    IF Len(body) >= BodyLimit THEN SubSeq(body, 1, BodyLimit) \o Ellipsis ELSE body

\* body[:200] + "..." if len(body) > 200 else body
Truncate(body) ==
    IF Len(body) > BodyLimit THEN SubSeq(body, 1, BodyLimit) \o Ellipsis ELSE body

\* The issue_data built for one object of a near_text response.
SimilarIssue(obj) ==
    [issue_id |-> obj.issue_id,
     body |-> Truncate(GetBody(obj).text),
     state |-> obj.state,
     labels |-> obj.labels]

\* The lines both find_similar_issues share: the handle, the near_text query,
\* the loop over its objects.  len() of a null body raises.
Retrieve(limit, env, handle, faults, objects) ==
    LET c == get_weaviate_client(env, handle, faults)
        ok == ~Fails(faults, Len(c.net) + 1)
        calls == Append(c.net, NetCall("near_text", limit, <<>>, ok))
        found == SubSeq(objects, 1, Min(limit, Len(objects)))
    IN  IF c.raised # ""
        THEN [raised |-> c.raised, client |-> c.client, net |-> c.net, objects |-> <<>>]
        ELSE IF ~ok
        THEN [raised |-> "service", client |-> c.client, net |-> calls, objects |-> <<>>]
        ELSE IF \E i \in 1..Len(found) : found[i].body = Null
        THEN [raised |-> "data", client |-> c.client, net |-> calls, objects |-> <<>>]
        ELSE [raised |-> "", client |-> c.client, net |-> calls, objects |-> found]

\* str(e) of what Retrieve raised.
Cause(raised) ==
    CASE raised = "config" -> ConfigMessage
      [] raised = "service" -> ServiceMessage
      [] raised = "data" -> DataMessage
      [] OTHER -> ""

\* Variant: the request model accepts every limit.
HttpFindSimilar_Unvalidated(limit, env, handle, faults, objects) ==
    LET r == Retrieve(limit, env, handle, faults, objects)
    IN  IF r.raised # ""
        THEN [out |-> HttpFailure(500, Detail("Failed to find similar issues: ",
                          IF r.raised = "config" THEN HttpExceptionText ELSE Cause(r.raised))),
              client |-> r.client, net |-> r.net]
        ELSE [out |-> Result("ok", 200, NoDetail,
                          [keys |-> {"similar_issues", "query_text", "total_found"},
                           items |-> [i \in 1..Len(r.objects) |-> SimilarIssue(r.objects[i])],
                           total_found |-> Len(r.objects)]),
              client |-> r.client, net |-> r.net]

\* main.py find_similar_issues behind POST /similar; SimilarIssuesRequest
\* rejects a limit outside 1..20 before the handler runs.
HttpFindSimilar(limit, env, handle, faults, objects) ==
    LET r == Retrieve(limit, env, handle, faults, objects)
    IN  IF limit < 1 \/ limit > 20
        THEN [out |-> HttpFailure(422, Detail("limit", "")), client |-> handle, net |-> <<>>]
        ELSE IF r.raised # ""
        THEN [out |-> HttpFailure(500, Detail("Failed to find similar issues: ",
                          IF r.raised = "config" THEN HttpExceptionText ELSE Cause(r.raised))),
              client |-> r.client, net |-> r.net]
        ELSE [out |-> Result("ok", 200, NoDetail,
                          [keys |-> {"similar_issues", "query_text", "total_found"},
                           items |-> [i \in 1..Len(r.objects) |-> SimilarIssue(r.objects[i])],
                           total_found |-> Len(r.objects)]),
              client |-> r.client, net |-> r.net]

\* Variant: a failure is returned as the empty list.
ToolFindSimilar_EmptyOnError(limit, env, handle, faults, objects) ==
    LET r == Retrieve(limit, env, handle, faults, objects)
    IN  [out |-> Result("ok", 0, NoDetail,
                     [keys |-> {},
                      items |-> [i \in 1..Len(r.objects) |-> SimilarIssue(r.objects[i])]]),
         client |-> r.client, net |-> r.net]

\* issue_triage_server.py find_similar_issues: the list of results, or a list
\* of one dict with the key "error".
ToolFindSimilar(limit, env, handle, faults, objects) ==
    LET r == Retrieve(limit, env, handle, faults, objects)
    IN  IF r.raised # ""
        THEN [out |-> Result("error", 0,
                          Detail("Failed to find similar issues: ", Cause(r.raised)),
                          [keys |-> {},
                           items |-> <<[error |-> Detail("Failed to find similar issues: ",
                                                         Cause(r.raised))]>>]),
              client |-> r.client, net |-> r.net]
        ELSE [out |-> Result("ok", 0, NoDetail,
                          [keys |-> {},
                           items |-> [i \in 1..Len(r.objects) |-> SimilarIssue(r.objects[i])]]),
              client |-> r.client, net |-> r.net]

\* ------------------------------------------------------------------ label search

SearchLabels == {"bug"}

\* The issue_data built for one object of a label query (no body).
LabelIssue(obj) ==
    [issue_id |-> obj.issue_id, state |-> obj.state, labels |-> obj.labels]

\* Variant: a query that failed is made a second time.
Search_Retry(kind, limit, env, handle, faults, objects) ==
    LET c == get_weaviate_client(env, handle, faults)
        ok == ~Fails(faults, Len(c.net) + 1)
        again_ok == ~Fails(faults, Len(c.net) + 2)
        calls == Append(c.net, NetCall(kind, limit, <<>>, ok))
                 \o (IF ok THEN <<>> ELSE <<NetCall(kind, limit, <<>>, again_ok)>>)
        found == SubSeq(objects, 1, Min(limit, Len(objects)))
    IN  IF c.raised # ""
        THEN [raised |-> c.raised, client |-> c.client, net |-> c.net, objects |-> <<>>]
        ELSE IF ~ok /\ ~again_ok
        THEN [raised |-> "service", client |-> c.client, net |-> calls, objects |-> <<>>]
        ELSE [raised |-> "", client |-> c.client, net |-> calls, objects |-> found]

\* The lines both search_issues_by_label share: the handle, one query of the
\* given kind, the loop over its objects.
Search(kind, limit, env, handle, faults, objects) ==
    LET c == get_weaviate_client(env, handle, faults)
        ok == ~Fails(faults, Len(c.net) + 1)
        calls == Append(c.net, NetCall(kind, limit, <<>>, ok))
        found == SubSeq(objects, 1, Min(limit, Len(objects)))
    IN  IF c.raised # ""
        THEN [raised |-> c.raised, client |-> c.client, net |-> c.net, objects |-> <<>>]
        ELSE IF ~ok
        THEN [raised |-> "service", client |-> c.client, net |-> calls, objects |-> <<>>]
        ELSE [raised |-> "", client |-> c.client, net |-> calls, objects |-> found]

\* main.py search_issues_by_label behind GET /search-by-label (bm25 on the
\* labels property).
HttpSearchByLabel(label, limit, env, handle, faults, objects) ==
    LET r == Search("bm25", limit, env, handle, faults, objects)
    IN  IF r.raised # ""
        THEN [out |-> HttpFailure(500, Detail("Failed to search issues by label: ",
                          IF r.raised = "config" THEN HttpExceptionText ELSE Cause(r.raised))),
              client |-> r.client, net |-> r.net]
        ELSE [out |-> Result("ok", 200, NoDetail,
                          [keys |-> {"label", "total_found", "issues"},
                           label |-> label,
                           items |-> [i \in 1..Len(r.objects) |-> LabelIssue(r.objects[i])],
                           total_found |-> Len(r.objects)]),
              client |-> r.client, net |-> r.net]

\* issue_triage_server.py search_issues_by_label (contains_any filter).
ToolSearchByLabel(label, limit, env, handle, faults, objects) ==
    LET r == Search("fetch_objects", limit, env, handle, faults, objects)
    IN  IF r.raised # ""
        THEN [out |-> Result("error", 0,
                          Detail("Failed to search issues by label: ", Cause(r.raised)),
                          [keys |-> {},
                           items |-> <<[error |-> Detail("Failed to search issues by label: ",
                                                         Cause(r.raised))]>>]),
              client |-> r.client, net |-> r.net]
        ELSE [out |-> Result("ok", 0, NoDetail,
                          [keys |-> {},
                           items |-> [i \in 1..Len(r.objects) |-> LabelIssue(r.objects[i])]]),
              client |-> r.client, net |-> r.net]

\* ------------------------------------------------------------------ priority scorer on the servers

\* What the scorer sees of its retrieval (limit=10).
Retrieved(r) == [ok |-> r.raised = "", objects |-> r.objects]

\* main.py get_priority_hint behind POST /priority-hint.
HttpHint(issue_text, arg, env, handle, faults, objects) ==
    LET r == Retrieve(PriorityRetrievalLimit, env, handle, faults, objects)
        hint == http_get_priority_hint(issue_text, arg, Retrieved(r))
    IN  [out |-> IF hint.status = "ok" THEN Result("ok", 200, NoDetail, hint)
                 ELSE Result("error", 500,
                             Detail("Failed to calculate priority hint: ", HttpExceptionText),
                             hint),
         client |-> r.client, net |-> r.net]

\* issue_triage_server.py get_priority_hint.
ToolHint(issue_text, arg, env, handle, faults, objects) ==
    LET r == Retrieve(PriorityRetrievalLimit, env, handle, faults, objects)
        hint == tool_get_priority_hint(issue_text, arg, Retrieved(r))
    IN  [out |-> Result("ok", 0, NoDetail, hint),
         client |-> r.client, net |-> r.net]

\* ------------------------------------------------------------------ idle values

WeaviateUrl == "https://cluster.weaviate.cloud"
WeaviateApiKey == "weaviate-api-key"

\* os.environ.get(name): None when the variable is not set.
EnvValues(value) == {None, "", value}
Environs ==
    {[WEAVIATE_URL |-> u, WEAVIATE_API_KEY |-> k] :
        u \in EnvValues(WeaviateUrl), k \in EnvValues(WeaviateApiKey)}
Configured == [WEAVIATE_URL |-> WeaviateUrl, WEAVIATE_API_KEY |-> WeaviateApiKey]

\* The invocation: operation, surface, arguments, and the handler's local list
\* of resolved issues when it has one.
Call(op, surf, args, issues) ==
    [op |-> op, surface |-> surf, args |-> args, issues |-> issues]
NoCall == Call("none", "none", [none |-> TRUE], <<>>)

\* What the external service does during one invocation: the calls it fails
\* and the objects it answers the invocation's similarity or label query with.
ServiceSays(faults, objects) ==
    [first |-> faults.first, again |-> faults.again, objects |-> objects]
NoService == ServiceSays(NoFaults, <<>>)

\* Requests to the scorer on the servers.
HintTexts == {TextDocs, TextUrgent}
HintArgs == {NoList, List(<<>>)}

NoApiEnviron == [API_BASE_URL |-> None, API_BEARER_TOKEN |-> None]
NoFile == [exists |-> FALSE, valid |-> FALSE, baseURL |-> Absent, bearerToken |-> Absent]
NoConfig == [built |-> FALSE, base_url |-> None, bearer_token |-> None]


\* ------------------------------------------------------------------ tool binding: configuration

ApiBaseUrl == "https://env.example"
ApiBearerToken == "env-token"
FileBaseUrl == "https://file.example"
FileBearerToken == "file-token"

\* os.environ of the binding's process.
ApiEnvirons ==
    {[API_BASE_URL |-> u, API_BEARER_TOKEN |-> t] :
        u \in EnvValues(ApiBaseUrl), t \in EnvValues(ApiBearerToken)}

\* ~/.api/config.json: not there, there but not a JSON object, or an object in
\* which each of the two keys is missing (Absent), empty or set.
ConfigFiles ==
    {NoFile, [exists |-> TRUE, valid |-> FALSE, baseURL |-> Absent, bearerToken |-> Absent]} \cup
    {[exists |-> TRUE, valid |-> TRUE, baseURL |-> u, bearerToken |-> t] :
        u \in {Absent, "", FileBaseUrl}, t \in {Absent, "", FileBearerToken}}

\* config_data.get(key)
FileGet(value) == IF value = Absent THEN None ELSE value

\* Python's `a or b` on strings and None.
Or(a, b) == IF NonEmpty(a) THEN a ELSE b

\* Variant: what the file says replaces what the environment says.
get_config_FileWins(env, file) ==
    LET base_url == env.API_BASE_URL
        bearer_token == env.API_BEARER_TOKEN
    IN  IF (~NonEmpty(base_url) \/ ~NonEmpty(bearer_token)) /\ file.exists
        THEN IF ~file.valid
             THEN [raised |-> TRUE, config |-> NoConfig]
             ELSE [raised |-> FALSE,
                   config |-> [built |-> TRUE,
                               base_url |-> Or(FileGet(file.baseURL), base_url),
                               bearer_token |-> Or(FileGet(file.bearerToken), bearer_token)]]
        ELSE [raised |-> FALSE,
              config |-> [built |-> TRUE, base_url |-> base_url, bearer_token |-> bearer_token]]

\* get_config() of main.py and of registry.py (the same text): the Config
\* object, or the exception of json.load / config_data.get.
get_config(env, file) ==
    LET base_url == env.API_BASE_URL
        bearer_token == env.API_BEARER_TOKEN
    IN  IF (~NonEmpty(base_url) \/ ~NonEmpty(bearer_token)) /\ file.exists
        THEN IF ~file.valid
             THEN [raised |-> TRUE, config |-> NoConfig]
             ELSE [raised |-> FALSE,
                   config |-> [built |-> TRUE,
                               base_url |-> Or(base_url, FileGet(file.baseURL)),
                               bearer_token |-> Or(bearer_token, FileGet(file.bearerToken))]]
        ELSE [raised |-> FALSE,
              config |-> [built |-> TRUE, base_url |-> base_url, bearer_token |-> bearer_token]]

\* ------------------------------------------------------------------ tool binding: forwarded calls

\* The functions of registry.py and the request each sends.
BindingOps ==
    {"find_similar_issues", "get_priority_hint", "summarize_issues",
     "search_issues_by_label", "api_health_check"}

Route(op) ==
    CASE op = "find_similar_issues" -> "POST /similar"
      [] op = "get_priority_hint" -> "POST /priority-hint"
      [] op = "summarize_issues" -> "POST /summarize"
      [] op = "search_issues_by_label" -> "GET /search-by-label"
      [] OTHER -> "GET /"

\* What happens to the request: answered 200, answered with another status,
\* or requests raises.
ApiAnswers == {"200", "500", "unreachable"}

MissingBaseUrl == "Error: Missing API_BASE_URL environment variable."

\* One function of registry.py: get_config(), the base_url test, the request.
\* `limit` is what main.py passes on (min(limit, 20) for find_similar_issues).
registry_api(op, limit, env, file, answer) ==
    LET c == get_config(env, file)
        request == NetCall(Route(op), limit, <<>>, answer # "unreachable")
    IN  IF c.raised
        THEN [out |-> Result("error", 0, Detail("Error: ", "json"), NoBody),
              config |-> c.config, net |-> <<>>]
        ELSE IF ~NonEmpty(c.config.base_url)
        THEN [out |-> Result("error", 0, Detail(MissingBaseUrl, ""), NoBody),
              config |-> c.config, net |-> <<>>]
        ELSE IF answer = "unreachable"
        THEN [out |-> Result("error", 0, Detail("Error: ", "requests"), NoBody),
              config |-> c.config, net |-> <<request>>]
        ELSE IF answer # "200"
        THEN [out |-> Result("error", 0, Detail("API error: ", answer), NoBody),
              config |-> c.config, net |-> <<request>>]
        ELSE [out |-> Result("ok", 0, NoDetail, NoBody),
              config |-> c.config, net |-> <<request>>]

\* main.py get_config_resource: base_url, and "***" for a bearer token.
get_config_resource(env, file) ==
    LET c == get_config(env, file)
    IN  IF c.raised
        THEN [out |-> Result("error", 0, Detail("Error: ", "json"), NoBody),
              config |-> c.config]
        ELSE [out |-> Result("ok", 0, NoDetail,
                          [keys |-> {"base_url", "bearer_token"},
                           base_url |-> c.config.base_url,
                           bearer_token |-> IF NonEmpty(c.config.bearer_token)
                                            THEN "***" ELSE None]),
              config |-> c.config]

\* ------------------------------------------------------------------ batch ingestion

BatchSize == 100

\* Full batches a file may fill.
MaxBatches == 2

\* What the loop body does with a line: json.loads and prepare_issue_data
\* return ("record"), json.loads raises JSONDecodeError, or
\* prepare_issue_data raises (the line is JSON but not an issue object, or a
\* field has an unexpected type).
LineKind(jsonl, line) ==
    IF line \in jsonl.malformed THEN "JSONDecodeError"
    ELSE IF line \in jsonl.unusable THEN "Exception"
    ELSE "record"

\* Lengths of the files: empty, one line, around one batch, around the last
\* full batch.
FileLengths ==
    {0, 1, BatchSize, BatchSize + 1,
     MaxBatches * BatchSize + 1, MaxBatches * BatchSize + 2}

\* Lines that may be other than a record: the first, and the two around the
\* end of the first batch.
OddLines == {1, BatchSize, BatchSize + 1}

\* The JSONL files: a number of lines, the lines json.loads rejects and the
\* lines prepare_issue_data rejects.
JsonlFiles ==
    {f \in [lines : FileLengths, malformed : SUBSET OddLines, unusable : SUBSET OddLines] :
        /\ f.malformed \cap f.unusable = {}
        /\ Cardinality(f.malformed \cup f.unusable) <= 2
        /\ \A l \in f.malformed \cup f.unusable : l <= f.lines}

\* The batches, by their number in the run, whose write raises: none, the
\* first, all the full ones, the one after them.
FailingBatches == {{}, {1}, 1..MaxBatches, {MaxBatches + 1}}

\* Variant: a batch is written once it holds more than 100 issues.
BatchFull_Over(pending) == Len(pending) > BatchSize

\* if len(issues) >= 100
BatchFull(pending) == Len(pending) >= BatchSize

\* ingest_batch: the issues handed to the batch writer and whether the write
\* went through; an exception of the writer is caught inside.
ingest_batch(pending, number, failing) ==
    [issues |-> pending, ok |-> number \notin failing]

\* A prepared issue is known by the line it came from.
NoIngest ==
    [jsonl |-> [lines |-> 0, malformed |-> {}, unusable |-> {}], failing |-> {},
     line_count |-> 0, issues |-> <<>>, batches |-> <<>>, at |-> "idle"]

IngestIdle == ingest = NoIngest

\* ------------------------------------------------------------------ state machine

NoRequest == [issue_text |-> <<>>, priority_keywords |-> NoList]
NoOutcome == [ok |-> FALSE, objects |-> <<>>]
NoPrev == [set |-> FALSE, priority_keywords |-> NoList, resp |-> NoResponse]

ScorerIdle ==
    /\ surface = "none"
    /\ req = NoRequest
    /\ similar = NoOutcome
    /\ resp = NoResponse
    /\ prev = NoPrev

ServerIdle ==
    /\ environ = Configured
    /\ weaviate_client = [http |-> None, tool |-> None]
    /\ service = NoService
    /\ call = NoCall
    /\ net = <<>>
    /\ out = NoResult

BindingIdle ==
    /\ api_environ = NoApiEnviron
    /\ config_file = NoFile
    /\ config = NoConfig

Init ==
    /\ ScorerIdle
    /\ ServerIdle
    /\ BindingIdle
    /\ IngestIdle

\* A client posts to /priority-hint.
HttpPriorityHint ==
    /\ surface = "none"
    /\ \E t \in IssueTexts, a \in KeywordArgs, o \in ServiceOutcomes :
        /\ surface' = "http"
        /\ req' = [issue_text |-> t, priority_keywords |-> a]
        /\ similar' = o
        /\ resp' = http_get_priority_hint(t, a, o)
        /\ prev' = NoPrev
    /\ UNCHANGED <<serverVars, bindingVars, ingest>>

\* A client calls the tool server's get_priority_hint.
ToolPriorityHint ==
    /\ surface = "none"
    /\ \E t \in IssueTexts, a \in KeywordArgs, o \in ServiceOutcomes :
        /\ surface' = "tool"
        /\ req' = [issue_text |-> t, priority_keywords |-> a]
        /\ similar' = o
        /\ resp' = tool_get_priority_hint(t, a, o)
        /\ prev' = NoPrev
    /\ UNCHANGED <<serverVars, bindingVars, ingest>>

\* A client calls get_priority_hint_api, which posts to /priority-hint.
RegistryPriorityHint ==
    /\ surface = "none"
    /\ \E t \in IssueTexts, a \in KeywordArgs, o \in ServiceOutcomes :
        /\ surface' = "http"
        /\ req' = [issue_text |-> t, priority_keywords |-> registry_payload_keywords(a)]
        /\ similar' = o
        /\ resp' = http_get_priority_hint(t, registry_payload_keywords(a), o)
        /\ prev' = NoPrev
    /\ UNCHANGED <<serverVars, bindingVars, ingest>>

\* The argument with one more keyword: a list grows by one entry, an omitted
\* list becomes the one-entry list.
WithKeyword(arg, k) == List(Append(arg.items, k))

\* The caller repeats the last request with one more keyword, against the same
\* retrieval result.
RepeatWithKeyword ==
    /\ surface \in {"http", "tool"}
    /\ Len(req.priority_keywords.items) < MaxKeywords
    /\ \E k \in KeywordPool :
        /\ req' = [req EXCEPT !.priority_keywords = WithKeyword(req.priority_keywords, k)]
        /\ resp' = Scorer(surface, req.issue_text, WithKeyword(req.priority_keywords, k), similar)
        /\ prev' = [set |-> TRUE, priority_keywords |-> req.priority_keywords, resp |-> resp]
    /\ UNCHANGED <<surface, similar, serverVars, bindingVars, ingest>>

\* The response has reached the caller; the scorer keeps nothing of a request.
Deliver ==
    /\ surface \in {"http", "tool"}
    /\ surface' = "none"
    /\ req' = NoRequest
    /\ similar' = NoOutcome
    /\ resp' = NoResponse
    /\ prev' = NoPrev
    /\ UNCHANGED <<serverVars, bindingVars, ingest>>

Next ==
    \/ HttpPriorityHint
    \/ ToolPriorityHint
    \/ RegistryPriorityHint
    \/ RepeatWithKeyword
    \/ Deliver

Spec == Init /\ [][Next]_vars

\* ------------------------------------------------------------------ state machine of the servers

\* One server process of each kind runs with the environment `environ`; each
\* keeps its own connection handle.  An invocation is one action: the handler
\* runs to its return, the external service answering its network calls as
\* `service` says.

HttpSummarize ==
    /\ call.op = "none"
    /\ \E issue_ids \in IssueIdLists, summary_type \in SummaryTypes, faults \in Faults :
        LET r == http_summarize_issues(issue_ids, summary_type, environ,
                                       weaviate_client.http, faults)
        IN  /\ call' = Call("summarize_issues", "http",
                            [issue_ids |-> issue_ids, summary_type |-> summary_type],
                            r.issues)
            /\ service' = ServiceSays(faults, <<>>)
            /\ net' = r.net
            /\ out' = r.out
            /\ weaviate_client' = [weaviate_client EXCEPT !.http = r.client]
    /\ UNCHANGED <<environ, scorerVars, bindingVars, ingest>>

ToolSummarize ==
    /\ call.op = "none"
    /\ \E issue_ids \in IssueIdLists, summary_type \in SummaryTypes, faults \in Faults :
        LET r == tool_summarize_issues(issue_ids, summary_type, environ,
                                       weaviate_client.tool, faults)
        IN  /\ call' = Call("summarize_issues", "tool",
                            [issue_ids |-> issue_ids, summary_type |-> summary_type],
                            r.issues)
            /\ service' = ServiceSays(faults, <<>>)
            /\ net' = r.net
            /\ out' = r.out
            /\ weaviate_client' = [weaviate_client EXCEPT !.tool = r.client]
    /\ UNCHANGED <<environ, scorerVars, bindingVars, ingest>>

HttpSimilar ==
    /\ call.op = "none"
    /\ \E issue_text \in QueryTexts, limit \in Limits, faults \in QueryFaults,
          objects \in QueryResults :
        LET r == HttpFindSimilar(limit, environ, weaviate_client.http, faults, objects)
        IN  /\ call' = Call("find_similar_issues", "http",
                            [issue_text |-> issue_text, limit |-> limit], <<>>)
            /\ service' = ServiceSays(faults, objects)
            /\ net' = r.net
            /\ out' = r.out
            /\ weaviate_client' = [weaviate_client EXCEPT !.http = r.client]
    /\ UNCHANGED <<environ, scorerVars, bindingVars, ingest>>

ToolSimilar ==
    /\ call.op = "none"
    /\ \E issue_text \in QueryTexts, limit \in Limits, faults \in QueryFaults,
          objects \in QueryResults :
        LET r == ToolFindSimilar(limit, environ, weaviate_client.tool, faults, objects)
        IN  /\ call' = Call("find_similar_issues", "tool",
                            [issue_text |-> issue_text, limit |-> limit], <<>>)
            /\ service' = ServiceSays(faults, objects)
            /\ net' = r.net
            /\ out' = r.out
            /\ weaviate_client' = [weaviate_client EXCEPT !.tool = r.client]
    /\ UNCHANGED <<environ, scorerVars, bindingVars, ingest>>

HttpLabelSearch ==
    /\ call.op = "none"
    /\ \E label \in SearchLabels, limit \in Limits, faults \in QueryFaults,
          objects \in ShortResults :
        LET r == HttpSearchByLabel(label, limit, environ, weaviate_client.http,
                                   faults, objects)
        IN  /\ call' = Call("search_issues_by_label", "http",
                            [label |-> label, limit |-> limit], <<>>)
            /\ service' = ServiceSays(faults, objects)
            /\ net' = r.net
            /\ out' = r.out
            /\ weaviate_client' = [weaviate_client EXCEPT !.http = r.client]
    /\ UNCHANGED <<environ, scorerVars, bindingVars, ingest>>

ToolLabelSearch ==
    /\ call.op = "none"
    /\ \E label \in SearchLabels, limit \in Limits, faults \in QueryFaults,
          objects \in ShortResults :
        LET r == ToolSearchByLabel(label, limit, environ, weaviate_client.tool,
                                   faults, objects)
        IN  /\ call' = Call("search_issues_by_label", "tool",
                            [label |-> label, limit |-> limit], <<>>)
            /\ service' = ServiceSays(faults, objects)
            /\ net' = r.net
            /\ out' = r.out
            /\ weaviate_client' = [weaviate_client EXCEPT !.tool = r.client]
    /\ UNCHANGED <<environ, scorerVars, bindingVars, ingest>>

HttpScore ==
    /\ call.op = "none"
    /\ \E issue_text \in HintTexts, arg \in HintArgs, faults \in QueryFaults,
          objects \in HintResults :
        LET r == HttpHint(issue_text, arg, environ, weaviate_client.http, faults, objects)
        IN  /\ call' = Call("get_priority_hint", "http",
                            [issue_text |-> issue_text, priority_keywords |-> arg], <<>>)
            /\ service' = ServiceSays(faults, objects)
            /\ net' = r.net
            /\ out' = r.out
            /\ weaviate_client' = [weaviate_client EXCEPT !.http = r.client]
    /\ UNCHANGED <<environ, scorerVars, bindingVars, ingest>>

ToolScore ==
    /\ call.op = "none"
    /\ \E issue_text \in HintTexts, arg \in HintArgs, faults \in QueryFaults,
          objects \in HintResults :
        LET r == ToolHint(issue_text, arg, environ, weaviate_client.tool, faults, objects)
        IN  /\ call' = Call("get_priority_hint", "tool",
                            [issue_text |-> issue_text, priority_keywords |-> arg], <<>>)
            /\ service' = ServiceSays(faults, objects)
            /\ net' = r.net
            /\ out' = r.out
            /\ weaviate_client' = [weaviate_client EXCEPT !.tool = r.client]
    /\ UNCHANGED <<environ, scorerVars, bindingVars, ingest>>

\* The result has reached the caller.  The process keeps its handle.
Return ==
    /\ call.op # "none"
    /\ call' = NoCall
    /\ service' = NoService
    /\ net' = <<>>
    /\ out' = NoResult
    /\ UNCHANGED <<environ, weaviate_client, scorerVars, bindingVars, ingest>>

InitService ==
    /\ ScorerIdle
    /\ BindingIdle
    /\ IngestIdle
    /\ environ \in Environs
    /\ weaviate_client = [http |-> None, tool |-> None]
    /\ service = NoService
    /\ call = NoCall
    /\ net = <<>>
    /\ out = NoResult

NextService ==
    \/ HttpSimilar
    \/ ToolSimilar
    \/ HttpSummarize
    \/ ToolSummarize
    \/ HttpScore
    \/ ToolScore
    \/ HttpLabelSearch
    \/ ToolLabelSearch
    \/ Return

SpecService == InitService /\ [][NextService]_vars

\* ------------------------------------------------------------------ vocabulary of the properties

\* A response has been returned for the request in `req`.
Returned == surface \in {"http", "tool"}
\* ... and it is a priority assessment (not an error).
Assessed == Returned /\ resp.status = "ok"
\* The assessment carries the degraded-analysis note.
Degraded == Assessed /\ resp.note = NOTE
\* The assessment was made with the neighbor analysis.
FullPath == Assessed /\ resp.note # NOTE

\* The retrieval of the request failed, or found nothing.
RetrievalFailed == ~similar.ok
RetrievalEmpty == similar.ok /\ similar.objects = <<>>

\* The neighbors the retrieval returned.
Neighbors == similar.objects

\* The keyword list in effect for the request.
EffectiveKeywords ==
    IF surface = "http" THEN http_priority_keywords(req.priority_keywords)
    ELSE tool_priority_keywords(req.priority_keywords)

Range(seq) == {seq[i] : i \in 1..Len(seq)}
Count(seq, x) == Cardinality({i \in 1..Len(seq) : seq[i] = x})

PriorityLabelSet == Range(priority_labels)

\* Neighbors having at least one label that case-insensitively equals a
\* priority label.
HighNeighbors ==
    {i \in 1..Len(Neighbors) :
        \E l \in Range(Neighbors[i].labels) : Lower(l) \in PriorityLabelSet}

\* Neighbors whose state is exactly "open".
OpenNeighbors == {i \in 1..Len(Neighbors) : Neighbors[i].state = "open"}

\* ------------------------------------------------------------------ C1

\* C1: on the full path the level is a function of the score alone: Critical
\* when score >= 8, High when 5 <= score < 8, Medium when 2 <= score < 5, Low
\* when score < 2, on the HTTP endpoint and on the tool server.
C1_FullPathLevel ==
    FullPath =>
        /\ (resp.priority_score >= 8) => resp.priority_level = "Critical"
        /\ (resp.priority_score >= 5 /\ resp.priority_score < 8)
               => resp.priority_level = "High"
        /\ (resp.priority_score >= 2 /\ resp.priority_score < 5)
               => resp.priority_level = "Medium"
        /\ (resp.priority_score < 2) => resp.priority_level = "Low"

\* A full-path assessment of the tool server in the High band.
C1_Witness ==
    /\ FullPath
    /\ surface = "tool"
    /\ resp.priority_score = 6
    /\ resp.priority_level = "High"

\* ------------------------------------------------------------------ C2

\* C2: on the keyword-only path the level is High when score >= 4, Medium when
\* 2 <= score < 4 and Low otherwise; a response carrying the degraded-analysis
\* note is never Critical.
C2_FallbackLevel ==
    Degraded =>
        /\ (resp.priority_score >= 4) => resp.priority_level = "High"
        /\ (resp.priority_score >= 2 /\ resp.priority_score < 4)
               => resp.priority_level = "Medium"
        /\ (resp.priority_score < 2) => resp.priority_level = "Low"
        /\ resp.priority_level # "Critical"

\* A degraded assessment whose score would be Critical on the full path.
C2_Witness ==
    /\ Degraded
    /\ resp.priority_score >= 8
    /\ resp.priority_level = "High"

\* ------------------------------------------------------------------ C3

\* C3: whenever the retrieval fails or returns zero neighbors, the scorer
\* answers with keyword-only scoring, the fallback thresholds and the
\* degraded-analysis note, on the HTTP endpoint and on the tool server.
C3_FallbackOnEverySurface ==
    (Returned /\ (RetrievalFailed \/ RetrievalEmpty)) =>
        /\ resp.status = "ok"
        /\ resp.note = NOTE
        /\ resp.keys = FallbackKeys
        /\ resp.priority_score = 2 * Len(resp.found_keywords)
        /\ resp.priority_level =
               (IF resp.priority_score >= 4 THEN "High"
                ELSE IF resp.priority_score >= 2 THEN "Medium" ELSE "Low")

\* ------------------------------------------------------------------ C4

\* C4: on the full path the score is 2*|found_keywords| + 2*H + (2 if
\* similar_open_count > 3 else 0), with H the number of neighbors having a
\* priority label (case-insensitively; once per neighbor) and
\* similar_open_count the number of neighbors whose state is exactly "open".
C4_FullPathScore ==
    FullPath =>
        /\ resp.similar_open_issues = Cardinality(OpenNeighbors)
        /\ resp.priority_score =
               2 * Len(resp.found_keywords)
               + 2 * Cardinality(HighNeighbors)
               + (IF Cardinality(OpenNeighbors) > 3 THEN 2 ELSE 0)

\* Every term of the sum is positive, and a neighbor with two priority labels
\* is among the neighbors.
C4_Witness ==
    /\ FullPath
    /\ resp.found_keywords # <<>>
    /\ Cardinality(OpenNeighbors) > 3
    /\ \E i \in HighNeighbors : Len(Neighbors[i].labels) = 2
    /\ resp.priority_score = 2 * Len(resp.found_keywords) + 2 * Cardinality(HighNeighbors) + 2

\* ------------------------------------------------------------------ C5

NoDuplicates(seq) == \A i, j \in 1..Len(seq) : seq[i] = seq[j] => i = j

\* C5 as stated: for every text and every priority_keywords list, found_keywords
\* contains no duplicate entries.
C5_NoDuplicatesAnyList == Assessed => NoDuplicates(resp.found_keywords)

\* C5, amended: a keyword is in found_keywords no more often than it is in the
\* keyword list in effect, however often it occurs in the text (so
\* found_keywords is duplicate-free whenever that list is, as the default list
\* is), and every entry of found_keywords accounts for exactly 2 points.
C5_OncePerListEntry ==
    Assessed =>
        /\ \A k \in Range(resp.found_keywords) :
               Count(resp.found_keywords, k) <= Count(EffectiveKeywords, k)
        /\ NoDuplicates(EffectiveKeywords) => NoDuplicates(resp.found_keywords)
        /\ Degraded => resp.priority_score = 2 * Len(resp.found_keywords)
        /\ FullPath =>
               resp.priority_score - 2 * Len(resp.found_keywords)
                   = 2 * Cardinality(HighNeighbors)
                     + (IF Cardinality(OpenNeighbors) > 3 THEN 2 ELSE 0)

\* "bug" occurs twice in the lower-cased text and once in the list; it is found
\* once.
C5_Witness ==
    /\ Assessed
    /\ req.issue_text = TextBug
    /\ Occurrences(Lower(req.issue_text), KwBug) = 2
    /\ Count(EffectiveKeywords, KwBug) = 1
    /\ Count(resp.found_keywords, KwBug) = 1

\* ------------------------------------------------------------------ C6

\* C6: for every keyword k of the list in effect (in any letter case) and every
\* text t, k is in found_keywords iff lower(k) is a substring of lower(t).
C6_CaseInsensitiveKeywords ==
    Assessed =>
        \A k \in Range(EffectiveKeywords) :
            (k \in Range(resp.found_keywords))
                <=> (Occurrences(Lower(req.issue_text), Lower(k)) > 0)

\* ------------------------------------------------------------------ C7

\* The request is the previous one with one more keyword, the keyword matches
\* the text, and both were assessed.
Extended ==
    /\ Assessed
    /\ prev.set
    /\ prev.resp.status = "ok"
    /\ Occurrences(Lower(req.issue_text),
                   Lower(req.priority_keywords.items[Len(req.priority_keywords.items)])) > 0

\* C7 as stated: for every list a caller can pass (the empty and the omitted
\* list included), one more matching keyword never lowers the score.
C7_MonotonicAnyList ==
    Extended => resp.priority_score >= prev.resp.priority_score

\* C7, amended: one more matching keyword never lowers the score when the
\* original list is the list the scorer scans: any list (the empty one
\* included) on the tool server, any non-empty list on the HTTP endpoint. (An
\* omitted list, and on the HTTP endpoint an empty one, stands for the 14
\* default keywords, which the one-keyword list replaces.)
C7_MonotonicGivenList ==
    (/\ Extended
     /\ ~prev.priority_keywords.is_none
     /\ (surface = "tool" \/ prev.priority_keywords.items # <<>>))
        => resp.priority_score >= prev.resp.priority_score

\* The tool server scored the empty list, then the list holding one matching
\* keyword, and the score rose by 2.
C7_Witness ==
    /\ Extended
    /\ surface = "tool"
    /\ prev.priority_keywords = List(<<>>)
    /\ resp.priority_score = prev.resp.priority_score + 2

\* ------------------------------------------------------------------ C8

\* Rules that fired, as the claim counts them.
KeywordRuleFired == resp.found_keywords # <<>>
OpenRuleFired == FullPath /\ Cardinality(OpenNeighbors) > 3
HighRuleFired == FullPath /\ Cardinality(HighNeighbors) > 0

\* The rule a reasoning line reports.
RuleOf(line) ==
    IF line.text \in {"Contains priority keywords", "Based on keywords"} THEN "keywords"
    ELSE IF line.text = "Multiple similar open issues found" THEN "open"
    ELSE IF line.text = "Similar issues have priority labels" THEN "high"
    ELSE "sentinel"

\* The rules that fired, in rule evaluation order.
FiredRules ==
    (IF KeywordRuleFired THEN <<"keywords">> ELSE <<>>)
    \o (IF OpenRuleFired THEN <<"open">> ELSE <<>>)
    \o (IF HighRuleFired THEN <<"high">> ELSE <<>>)

\* C8: every assessment has a non-empty reasoning list: the single sentinel
\* line when no rule fired, otherwise one line per rule that fired, in rule
\* evaluation order (keywords, similar-open count, similar-high-priority count).
C8_ReasoningNeverEmpty ==
    Assessed =>
        /\ resp.reasoning # <<>>
        /\ FiredRules = <<>> => resp.reasoning = <<Line(SENTINEL, <<>>, 0)>>
        /\ FiredRules # <<>> =>
               [i \in 1..Len(resp.reasoning) |-> RuleOf(resp.reasoning[i])] = FiredRules

\* ------------------------------------------------------------------ C9

\* Entries of the list in effect that match the text case-insensitively.
MatchedEntries ==
    {i \in 1..Len(EffectiveKeywords) :
        Occurrences(Lower(req.issue_text), Lower(EffectiveKeywords[i])) > 0}

\* Entries of the list in effect that occur, as given, in the lower-cased text.
ScannedEntries ==
    {i \in 1..Len(EffectiveKeywords) :
        Occurrences(Lower(req.issue_text), EffectiveKeywords[i]) > 0}

\* C9 as stated: the level returned for a text matching at least four keywords
\* is Critical whatever the retrieval did (neighbors, none, or a failure).
C9_CriticalAnyRetrieval ==
    (Assessed /\ Cardinality(MatchedEntries) >= 4)
        => resp.priority_level = "Critical"

\* C9, amended: with at least four entries of the list in effect occurring in
\* the lower-cased text (base score >= 8), the level is Critical whenever the
\* neighbor analysis runs (tool server: at least one neighbor; HTTP endpoint:
\* any successful retrieval, an empty one included); the tool server answers
\* High with the degraded-analysis note when the retrieval fails or is empty;
\* the HTTP endpoint answers 500 when the retrieval fails.
C9_CriticalOnFullPath ==
    (Returned /\ Cardinality(ScannedEntries) >= 4) =>
        /\ (similar.ok /\ (surface = "http" \/ Neighbors # <<>>))
               => (resp.status = "ok" /\ resp.note # NOTE
                   /\ resp.priority_level = "Critical")
        /\ (surface = "tool" /\ (RetrievalFailed \/ RetrievalEmpty))
               => (resp.status = "ok" /\ resp.note = NOTE
                   /\ resp.priority_level = "High")
        /\ (surface = "http" /\ RetrievalFailed) => resp.status = "error"

\* The HTTP endpoint, five default keywords in the text, no neighbor: Critical
\* with score 10.
C9_Witness ==
    /\ Returned
    /\ surface = "http"
    /\ req.issue_text = TextUrgent
    /\ Cardinality(ScannedEntries) = 5
    /\ RetrievalEmpty
    /\ resp.priority_score = 10
    /\ resp.priority_level = "Critical"

\* ------------------------------------------------------------------ C10

\* C10: a text containing none of the configured keywords, with the retrieval
\* unavailable or empty, is assessed Low with score 0.
C10_LowWithoutKeywords ==
    (Returned /\ MatchedEntries = {} /\ (RetrievalFailed \/ RetrievalEmpty))
        => (/\ resp.status = "ok"
            /\ resp.priority_level = "Low"
            /\ resp.priority_score = 0)

\* ------------------------------------------------------------------ state machine of the tool binding

\* A client calls one of the binding's tools.
BindingCall ==
    /\ call.op = "none"
    /\ \E op \in BindingOps, limit \in Limits, answer \in ApiAnswers :
        LET forwarded == IF op = "find_similar_issues" THEN Min(limit, 20)
                         ELSE IF op = "search_issues_by_label" THEN limit
                         ELSE 0
            r == registry_api(op, forwarded, api_environ, config_file, answer)
        IN  /\ op \notin {"find_similar_issues", "search_issues_by_label"} => limit = 1
            /\ call' = Call(op, "binding", [limit |-> limit, answer |-> answer], <<>>)
            /\ config' = r.config
            /\ net' = r.net
            /\ out' = r.out
    /\ UNCHANGED <<api_environ, config_file, environ, weaviate_client, service, scorerVars, ingest>>

\* A client reads the resource config://settings.
ReadConfigResource ==
    /\ call.op = "none"
    /\ LET r == get_config_resource(api_environ, config_file)
       IN  /\ call' = Call("get_config_resource", "binding", [none |-> TRUE], <<>>)
           /\ config' = r.config
           /\ out' = r.out
    /\ UNCHANGED <<net, api_environ, config_file, environ, weaviate_client, service, scorerVars, ingest>>

\* The result has reached the client.  Nothing of the call is kept: the next
\* call builds its Config anew.
BindingReturn ==
    /\ call.op # "none"
    /\ call' = NoCall
    /\ config' = NoConfig
    /\ net' = <<>>
    /\ out' = NoResult
    /\ UNCHANGED <<api_environ, config_file, environ, weaviate_client, service, scorerVars, ingest>>

InitConfig ==
    /\ ScorerIdle
    /\ ServerIdle
    /\ IngestIdle
    /\ api_environ \in ApiEnvirons
    /\ config_file \in ConfigFiles
    /\ config = NoConfig

NextConfig ==
    \/ BindingCall
    \/ ReadConfigResource
    \/ BindingReturn

SpecConfig == InitConfig /\ [][NextConfig]_vars

\* ------------------------------------------------------------------ state machine of the entry surfaces

\* The three processes side by side, the servers configured: every entry
\* surface through which a retrieval can be asked for.

InitLimits ==
    /\ ScorerIdle
    /\ ServerIdle
    /\ IngestIdle
    /\ api_environ \in ApiEnvirons
    /\ config_file = NoFile
    /\ config = NoConfig

\* The result has reached the caller of whichever process answered.
AnyReturn ==
    \/ call.surface = "binding" /\ BindingReturn
    \/ call.surface \in {"http", "tool"} /\ Return

NextLimits ==
    \/ HttpSimilar
    \/ ToolSimilar
    \/ HttpScore
    \/ ToolScore
    \/ BindingCall
    \/ AnyReturn

SpecLimits == InitLimits /\ [][NextLimits]_vars

\* ------------------------------------------------------------------ state machine of the ingestion run

\* load_and_ingest_data after the collection has been created and the file
\* opened: the for loop over the lines, then the lines after the loop.

InitIngest ==
    /\ ScorerIdle
    /\ ServerIdle
    /\ BindingIdle
    /\ ingest \in {[NoIngest EXCEPT !.jsonl = f, !.failing = w, !.at = "loop"] :
                      f \in JsonlFiles, w \in FailingBatches}

\* One pass of `for line in file`: count the line; on a record, append it and
\* write the batch when it is full; on an exception, go on with the next line.
ReadLine ==
    /\ ingest.at = "loop"
    /\ ingest.line_count < ingest.jsonl.lines
    /\ LET line_count == ingest.line_count + 1
           appended == Append(ingest.issues, line_count)
       IN  ingest' =
               IF LineKind(ingest.jsonl, line_count) # "record"
               THEN [ingest EXCEPT !.line_count = line_count]
               ELSE IF BatchFull(appended)
               THEN [ingest EXCEPT
                        !.line_count = line_count,
                        !.batches = Append(@, ingest_batch(appended, Len(@) + 1,
                                                           ingest.failing)),
                        !.issues = <<>>]
               ELSE [ingest EXCEPT !.line_count = line_count, !.issues = appended]
    /\ UNCHANGED <<scorerVars, serverVars, bindingVars>>

\* The file is exhausted: `if issues: ingest_batch(collection, issues)`, and
\* the function returns.
EndOfFile ==
    /\ ingest.at = "loop"
    /\ ingest.line_count = ingest.jsonl.lines
    /\ ingest' =
           [ingest EXCEPT
               !.at = "done",
               !.batches = IF ingest.issues # <<>>
                           THEN Append(@, ingest_batch(ingest.issues, Len(@) + 1,
                                                       ingest.failing))
                           ELSE @]
    /\ UNCHANGED <<scorerVars, serverVars, bindingVars>>

NextIngest ==
    \/ ReadLine
    \/ EndOfFile

\* The script is a sequential program: as long as a step is possible it is
\* taken (json.loads and the batch write return or raise).
SpecIngest == InitIngest /\ [][NextIngest]_vars /\ WF_vars(NextIngest)

\* ------------------------------------------------------------------ vocabulary of the server properties

\* The invocation being answered is of this operation.
Invoked(op) == call.op = op

\* The summarizer returned a summary report.
Summarized == Invoked("summarize_issues") /\ out.status = "ok"
Report == out.body

\* The identifiers the caller asked for, and the issues the report is about.
RequestedIds == call.args.issue_ids
SummarizedIssues == call.issues

\* The stored objects the summarizer took the issues from.
TakenFrom(obj) == \E i \in 1..Len(SummarizedIssues) : SummarizedIssues[i] = IssueDict(obj)

\* ------------------------------------------------------------------ C11

\* C11: every summary report has pull_requests + issues = total_issues and
\* open_issues + closed_issues <= total_issues, whatever the states of the
\* resolved issues are and whether or not they carry a pull-request flag.
C11_ReportCounts ==
    Summarized =>
        /\ Report.pull_requests + Report.issues = Report.total_issues
        /\ Report.open_issues + Report.closed_issues <= Report.total_issues

\* A report over an issue in a state other than open/closed that has no
\* pull-request flag, and an issue whose flag is stored as null.
C11_Witness ==
    /\ Summarized
    /\ TakenFrom(RecDraft) /\ RecDraft.is_pull_request = Absent
    /\ RecDraft.state \notin {"open", "closed"}
    /\ TakenFrom(RecCrash) /\ RecCrash.is_pull_request = None
    /\ Report.open_issues + Report.closed_issues < Report.total_issues

\* ------------------------------------------------------------------ C12

\* Number of entries of the list `keys` that equal `key`, and the position of
\* the first of them.
OccurrencesIn(keys, key) == Cardinality({i \in 1..Len(keys) : keys[i] = key})
FirstIn(keys, key) == CHOOSE i \in 1..Len(keys) : keys[i] = key /\ \A j \in 1..(i - 1) : keys[j] # key

\* `ranking` is the top-n ranking of the entries of `keys`: at most n pairs of
\* distinct keys with their numbers of occurrences, in descending order of
\* count, equal counts in the order in which the keys first occur, and no key
\* left out occurs more often than one that is in.
IsRanking(ranking, keys, n) ==
    /\ Len(ranking) <= n
    /\ Len(ranking) = n \/ Len(ranking) = Cardinality(Range(keys))
    /\ \A i \in 1..Len(ranking) :
           /\ ranking[i].k \in Range(keys)
           /\ ranking[i].v = OccurrencesIn(keys, ranking[i].k)
    /\ \A i, j \in 1..Len(ranking) :
           i < j =>
               /\ ranking[i].k # ranking[j].k
               /\ ranking[i].v >= ranking[j].v
               /\ ranking[i].v = ranking[j].v
                      => FirstIn(keys, ranking[i].k) < FirstIn(keys, ranking[j].k)
    /\ \A key \in Range(keys) :
           (\A i \in 1..Len(ranking) : ranking[i].k # key)
               => \A i \in 1..Len(ranking) : OccurrencesIn(keys, key) <= ranking[i].v

\* The labels of the summarized issues, issue by issue, and the lower-cased
\* words of more than three characters of their titles.
LabelsSeen == AllLabels(SummarizedIssues, 1)
WordsSeen == LongWords(Split(Lower(JoinTitles(SummarizedIssues, 1))))

\* C12: common_labels is the top-5 ranking of the labels of the resolved
\* issues by number of occurrences: descending counts, equal counts in
\* first-encountered order, no label left out with a higher count than one
\* included; common_themes, when the report has it, is the top-10 ranking of
\* the title words in the same way.
C12_Rankings ==
    Summarized =>
        /\ IsRanking(Report.common_labels, LabelsSeen, 5)
        /\ ~Report.common_themes.is_none
               => IsRanking(Report.common_themes.items, WordsSeen, 10)

\* A themes report over more than five labels and more than ten words, with
\* equal counts inside both rankings and at both cuts.
C12_Witness ==
    /\ Summarized
    /\ ~Report.common_themes.is_none
    /\ Cardinality(Range(LabelsSeen)) > 5
    /\ Cardinality(Range(WordsSeen)) > 10
    /\ Len(Report.common_labels) = 5
    /\ Len(Report.common_themes.items) = 10
    /\ Report.common_labels[1].v > Report.common_labels[2].v
    /\ Report.common_labels[4].v = Report.common_labels[5].v
    /\ Report.common_themes.items[1].v = Report.common_themes.items[2].v
    /\ Report.common_themes.items[2].v > Report.common_themes.items[3].v
    /\ Report.common_themes.items[9].v = Report.common_themes.items[10].v

\* ------------------------------------------------------------------ C13

\* No stored object has one of the requested identifiers.
NothingResolves ==
    \A i \in 1..Len(RequestedIds) :
        \A j \in 1..Len(Collection) : Collection[j].issue_id # RequestedIds[i]

\* C13: when no requested identifier resolves to a record (the empty list
\* included) the summarizer returns no summary report, and no summary report
\* has total_issues = 0.
C13_NoReportWhenNothingResolves ==
    /\ (Invoked("summarize_issues") /\ NothingResolves) => out.status = "error"
    /\ Summarized => Report.total_issues > 0

\* ------------------------------------------------------------------ C14

\* C14: a summary report is about at most as many issues as identifiers were
\* requested, and every issue it is about has a requested identifier.
C14_SummarizedAreRequested ==
    Summarized =>
        /\ Report.total_issues <= Len(RequestedIds)
        /\ \A i \in 1..Len(SummarizedIssues) :
               SummarizedIssues[i].id \in Range(RequestedIds)

\* ------------------------------------------------------------------ C15

\* The positions of the network calls of the invocation that failed.
FailedCalls == {i \in 1..Len(net) : ~net[i].ok}

\* C15: when a call to the external service fails during the summarizer, the
\* similarity retriever or the label search, the operation returns a failure,
\* not a success result, and the failed call is the last call it makes.
C15_FailureIsFinal ==
    (/\ call.op \in {"summarize_issues", "find_similar_issues", "search_issues_by_label"}
     /\ FailedCalls # {})
        => /\ out.status = "error"
           /\ FailedCalls = {Len(net)}

\* ------------------------------------------------------------------ C16

\* The similarity retriever returned its records.
Retrieval == Invoked("find_similar_issues") /\ out.status = "ok"
ReturnedRecords == out.body.items

\* The body the service holds for the i-th returned record ("" when the
\* object has none).
StoredBody(i) ==
    IF service.objects[i].body.is = "missing" THEN <<>> ELSE service.objects[i].body.text

\* C16: the body of every record the similarity retriever returns is the
\* stored body when that has at most 200 characters, and its first 200
\* characters followed by "..." when it has more; it never has more than 203
\* characters.
C16_BodyTruncation ==
    Retrieval =>
        \A i \in 1..Len(ReturnedRecords) :
            /\ Len(StoredBody(i)) <= 200 => ReturnedRecords[i].body = StoredBody(i)
            /\ Len(StoredBody(i)) > 200 =>
                   ReturnedRecords[i].body = SubSeq(StoredBody(i), 1, 200) \o <<".", ".", ".">>
            /\ Len(ReturnedRecords[i].body) <= 203

\* Both surfaces return a body of exactly 200 characters as it is and a body
\* of 201 characters as 203 characters.
C16_Witness ==
    /\ Retrieval
    /\ Len(ReturnedRecords) = 2
    /\ Len(StoredBody(1)) = 200 /\ Len(ReturnedRecords[1].body) = 200
    /\ Len(StoredBody(2)) = 201 /\ Len(ReturnedRecords[2].body) = 203
    /\ ReturnedRecords[2].body # StoredBody(2)

\* ------------------------------------------------------------------ C17

\* C17: when the external service fails during a similarity retrieval, the
\* tool server returns a list of one element that carries the key "error",
\* the HTTP endpoint answers with a 5xx status whose detail embeds the message
\* of the failure, and the tool-server scorer answers with the keyword-only
\* assessment: the degraded-analysis note, no neighbor counts, and a score
\* made of the keyword matches alone.  None of them returns an empty success.
C17_RetrievalFailureIsReported ==
    FailedCalls # {} =>
        /\ (Invoked("find_similar_issues") /\ call.surface = "tool")
               => /\ Len(out.body.items) = 1
                  /\ "error" \in DOMAIN out.body.items[1]
                  /\ out.body.items[1].error.cause = ServiceMessage
        /\ (Invoked("find_similar_issues") /\ call.surface = "http")
               => /\ out.code \in 500..599
                  /\ out.detail.cause = ServiceMessage
        /\ (Invoked("get_priority_hint") /\ call.surface = "tool")
               => /\ out.body.status = "ok"
                  /\ out.body.note = NOTE
                  /\ "similar_issues_count" \notin out.body.keys
                  /\ "similar_open_issues" \notin out.body.keys
                  /\ out.body.priority_score = 2 * Len(out.body.found_keywords)

\* The tool server's retriever after its near_text query failed on an
\* established connection.
C17_Witness ==
    /\ Invoked("find_similar_issues") /\ call.surface = "tool"
    /\ Len(net) = 1 /\ net[1].kind = "near_text" /\ ~net[1].ok
    /\ service.objects # <<>>
    /\ Len(out.body.items) = 1
    /\ "error" \in DOMAIN out.body.items[1]

\* ------------------------------------------------------------------ C18

\* What each surface answers to the request in `req` when the service does
\* what `similar` says.
HttpAnswer == http_get_priority_hint(req.issue_text, req.priority_keywords, similar)
ToolAnswer == tool_get_priority_hint(req.issue_text, req.priority_keywords, similar)

\* C18: for the same issue_text, the same priority_keywords argument (omitted,
\* empty or non-empty) and the same responses of the external service, the
\* HTTP endpoint and the tool server return the same priority_level,
\* priority_score and found_keywords.
C18_SurfacesAgree ==
    Returned =>
        /\ HttpAnswer.status = ToolAnswer.status
        /\ HttpAnswer.priority_level = ToolAnswer.priority_level
        /\ HttpAnswer.priority_score = ToolAnswer.priority_score
        /\ HttpAnswer.found_keywords = ToolAnswer.found_keywords

\* ------------------------------------------------------------------ C19

\* The endpoint or the credential is absent from the environment (not set, or
\* set to the empty string).
ConfigAbsent ==
    \/ environ.WEAVIATE_URL \in {None, ""}
    \/ environ.WEAVIATE_API_KEY \in {None, ""}

NoHandle == weaviate_client.http = None /\ weaviate_client.tool = None

\* The error returned is the configuration error: the message of
\* get_weaviate_client, as the detail itself or as the cause embedded in it.
ConfigurationError ==
    /\ out.status = "error"
    /\ \/ out.detail.prefix = ConfigMessage
       \/ out.detail.cause \in {ConfigMessage, HttpExceptionText}

Resolved == call.surface = "binding" /\ config.built

\* `value` is the resolution of one field: the environment value when that is
\* set and not empty; else what the file has under the key (nothing, when the
\* key is missing) when the file exists; else unset.
ResolvesTo(value, env_value, file_value) ==
    IF env_value \notin {None, ""} THEN value = env_value
    ELSE IF config_file.exists
    THEN value = (IF file_value = Absent THEN None ELSE file_value)
    ELSE value \in {None, ""}

\* C20: each of base_url and bearer_token is resolved on its own, the
\* environment before the file: a field set in the environment keeps the
\* environment's value even when the other field is taken from the file.
C20_EnvironmentOverFilePerField ==
    Resolved =>
        /\ ResolvesTo(config.base_url, api_environ.API_BASE_URL, config_file.baseURL)
        /\ ResolvesTo(config.bearer_token, api_environ.API_BEARER_TOKEN,
                      config_file.bearerToken)

\* The base URL is set in the environment only, the token in the file only,
\* and the file has another base URL: the Config takes one field from each.
C20_Witness ==
    /\ Resolved
    /\ api_environ.API_BASE_URL = ApiBaseUrl
    /\ api_environ.API_BEARER_TOKEN = None
    /\ config_file.exists
    /\ config_file.baseURL = FileBaseUrl
    /\ config_file.bearerToken = FileBearerToken
    /\ config.base_url = ApiBaseUrl
    /\ config.bearer_token = FileBearerToken

\* The binding sends a request if and only if the resolved base URL is not
\* empty, whatever the bearer token is.
BindingNeedsBaseUrlOnly ==
    (call.surface = "binding" /\ call.op \in BindingOps /\ config.built)
        => (net # <<>>) = (config.base_url \notin {None, ""})

\* ------------------------------------------------------------------ C21

\* The queries of the invocation that reached the external service.
Queries == SelectSeq(net, LAMBDA c : c.kind = "near_text")

\* C21: the retrieval limit is bounded per entry surface.  POST /similar
\* answers 422 to a limit outside 1..20 without querying, and queries with the
\* caller's limit otherwise; the binding's find_similar_issues forwards
\* min(limit, 20), never more than 20; the scorer queries with limit 10 on
\* both servers, so similar_issues_count is at most 10.
C21_LimitPerSurface ==
    /\ (Invoked("find_similar_issues") /\ call.surface = "http") =>
           /\ (call.args.limit \notin 1..20) => (out.code = 422 /\ net = <<>>)
           /\ \A i \in 1..Len(Queries) :
                  Queries[i].limit = call.args.limit /\ Queries[i].limit \in 1..20
    /\ (Invoked("find_similar_issues") /\ call.surface = "binding") =>
           \A i \in 1..Len(net) :
               /\ net[i].limit <= 20
               /\ net[i].limit = (IF call.args.limit < 20 THEN call.args.limit ELSE 20)
    /\ (Invoked("get_priority_hint") /\ call.surface \in {"http", "tool"}) =>
           /\ \A i \in 1..Len(Queries) : Queries[i].limit = 10
           /\ (out.status = "ok" /\ "similar_issues_count" \in out.body.keys)
                  => out.body.similar_issues_count <= 10

\* The scorer is asked about a text that eleven stored issues are near to: it
\* queries with limit 10 and counts ten neighbors.
C21_Witness ==
    /\ Invoked("get_priority_hint") /\ call.surface = "http"
    /\ Len(service.objects) = 11
    /\ Len(Queries) = 1 /\ Queries[1].limit = 10 /\ Queries[1].ok
    /\ out.status = "ok"
    /\ out.body.similar_issues_count = 10

\* ------------------------------------------------------------------ C22

\* The report carries the optional part: the key is there and its value is not
\* null (the HTTP response model has both keys in every report).
Attached(field) == field \in Report.keys /\ ~Report[field].is_none

\* The whitespace-delimited tokens of the titles of the summarized issues,
\* title by title: the issue and the position at which the token starts.
TitleTokens ==
    UNION {{<<i, a>> : a \in WordStarts(SummarizedIssues[i].title)} :
              i \in 1..Len(SummarizedIssues)}

\* The token as it stands in the title.
TokenText(t) ==
    LET title == SummarizedIssues[t[1]].title
    IN  SubSeq(title, t[2], WordEnd(title, t[2]))

\* The tokens that read `word` once lower-cased.
TokensReading(word) == {t \in TitleTokens : Lower(TokenText(t)) = word}

\* C22: issue_details (the whole list of resolved issues) is attached exactly
\* when summary_type is "detailed", common_themes exactly when it is "themes",
\* never both; every entry of common_themes is a lower-cased
\* whitespace-delimited title token of more than three characters with the
\* number of its occurrences in the titles of the resolved issues.
C22_OptionalParts ==
    Summarized =>
        /\ Attached("issue_details") <=> (call.args.summary_type = "detailed")
        /\ Attached("common_themes") <=> (call.args.summary_type = "themes")
        /\ ~(Attached("issue_details") /\ Attached("common_themes"))
        /\ Attached("issue_details") => Report.issue_details.items = SummarizedIssues
        /\ Attached("common_themes") =>
               \A i \in 1..Len(Report.common_themes.items) :
                   LET theme == Report.common_themes.items[i]
                   IN  /\ Len(theme.k) > 3
                       /\ TokensReading(theme.k) # {}
                       /\ theme.v = Cardinality(TokensReading(theme.k))

\* A themes report over two titles, one with "Crash" and one with "crash"
\* after a double blank: the theme "crash" is counted twice, the short "on"
\* is no theme, and no issue list is attached.
C22_Witness ==
    /\ Summarized
    /\ call.args.summary_type = "themes"
    /\ Attached("common_themes") /\ ~Attached("issue_details")
    /\ Len(SummarizedIssues) = 2
    /\ \E i \in 1..Len(Report.common_themes.items) :
           /\ Report.common_themes.items[i].k = WCrashLower
           /\ Report.common_themes.items[i].v = 2
    /\ \E t \in TitleTokens :
           /\ TokenText(t) = WOn
           /\ \A i \in 1..Len(Report.common_themes.items) :
                  Report.common_themes.items[i].k # WOn

\* ------------------------------------------------------------------ C23

Processes == {"http", "tool"}

\* The connections the invocation tried to establish.
Connects(calls) == SelectSeq(calls, LAMBDA c : c.kind = "connect")

\* C23: in each process the connection is established at most once.  Once the
\* handle is set, no invocation of that process connects again and no step
\* clears or replaces the handle, whatever happens to the queries made on it;
\* the handle is set only by an invocation of that process whose one
\* connection attempt succeeded.
C23_ConnectedOnce ==
    [][\A p \in Processes :
          /\ weaviate_client[p] # None =>
                 /\ weaviate_client'[p] = weaviate_client[p]
                 /\ call'.surface = p => Connects(net') = <<>>
          /\ (weaviate_client[p] = None /\ weaviate_client'[p] # None) =>
                 /\ call'.surface = p
                 /\ Len(Connects(net')) = 1
                 /\ Connects(net')[1].ok]_vars

\* The HTTP process answers a request on the handle it already had: it did
\* not connect, its query failed, and the handle is still there.
C23_Witness ==
    /\ call.surface = "http" /\ call.op # "none"
    /\ weaviate_client.http = Connection
    /\ Connects(net) = <<>>
    /\ net # <<>>
    /\ ~net[Len(net)].ok
    /\ out.status = "error"

\* ------------------------------------------------------------------ C24

\* The queries of the invocation (every network call but the connection).
QueriesMade == SelectSeq(net, LAMBDA c : c.kind # "connect")

\* C24 as stated: every invocation, of every operation, makes at most one
\* query before it returns.
C24_OneQueryPerInvocation ==
    call.surface \in Processes => Len(QueriesMade) <= 1

\* C24, amended: similar, priority hint and label search make at most one
\* query.  The tool server's summarize_issues makes one equality query per
\* identifier, in order, until one fails: at most as many as identifiers.  The
\* HTTP /summarize makes one bulk query and, only if that failed, a second
\* one.
C24_QueriesPerInvocation ==
    call.surface \in Processes =>
        IF Invoked("summarize_issues") /\ call.surface = "tool"
        THEN /\ Len(QueriesMade) <= Len(RequestedIds)
             /\ \A i \in 1..Len(QueriesMade) :
                    /\ QueriesMade[i].where = <<RequestedIds[i]>>
                    /\ QueriesMade[i].limit = 1
                    /\ i < Len(QueriesMade) => QueriesMade[i].ok
        ELSE IF Invoked("summarize_issues")
        THEN /\ Len(QueriesMade) <= 2
             /\ Len(QueriesMade) = 2 => ~QueriesMade[1].ok
        ELSE Len(QueriesMade) <= 1

\* The tool server summarizes two identifiers: two queries, both answered,
\* and a report over both issues.
C24_Witness ==
    /\ Summarized /\ call.surface = "tool"
    /\ Len(RequestedIds) = 2
    /\ Len(QueriesMade) = 2
    /\ QueriesMade[1].ok /\ QueriesMade[2].ok
    /\ Report.total_issues = 2

\* ------------------------------------------------------------------ C25

\* The run has returned from load_and_ingest_data.
Ingested == ingest.at = "done"

\* Lines json.loads accepted, and lines that became a prepared issue.
ParsedLines == (1..ingest.jsonl.lines) \ ingest.jsonl.malformed
PreparedLines == ParsedLines \ ingest.jsonl.unusable

\* The issues handed to the batch writer, batch after batch.
RECURSIVE Submitted(_)
Submitted(n) ==
    IF n = 0 THEN <<>> ELSE Submitted(n - 1) \o ingest.batches[n].issues

\* `seq` lists exactly the lines of `lines`, each once, in file order.
ListsInOrder(seq, lines) ==
    /\ Range(seq) = lines
    /\ \A i \in 1..(Len(seq) - 1) : seq[i] < seq[i + 1]

\* No batch is empty or larger than 100, and every batch but the last one of
\* the run holds exactly 100.
BatchSizes ==
    \A b \in 1..Len(ingest.batches) :
        /\ Len(ingest.batches[b].issues) \in 1..100
        /\ (b < Len(ingest.batches) \/ ~Ingested) => Len(ingest.batches[b].issues) = 100

\* Every batch was attempted whatever became of the ones before it.
AllAttempted ==
    \A b \in 1..Len(ingest.batches) :
        ingest.batches[b].ok = (b \notin ingest.failing)

\* C25 as stated: the run terminates having counted every line, and the
\* batches then hold every line that json.loads accepted, once and in file
\* order, at most 100 per batch and exactly 100 in every batch but the last,
\* whichever lines were malformed and whichever batch writes failed.
C25_EveryParsedLineIngested ==
    /\ [](Ingested =>
             /\ ingest.line_count = ingest.jsonl.lines
             /\ ListsInOrder(Submitted(Len(ingest.batches)), ParsedLines)
             /\ BatchSizes
             /\ AllAttempted)
    /\ <>Ingested

\* C25, amended: the same for every line that json.loads accepted and
\* prepare_issue_data turned into an issue; a line that raises in either is
\* skipped.  While the loop runs, the batches written and the pending issues
\* together hold those lines among the ones read so far, and fewer than 100
\* are pending.
C25_EveryPreparedLineIngested ==
    /\ [](ingest.at = "loop" =>
             /\ ListsInOrder(Submitted(Len(ingest.batches)) \o ingest.issues,
                             PreparedLines \cap (1..ingest.line_count))
             /\ Len(ingest.issues) < 100
             /\ BatchSizes
             /\ AllAttempted)
    /\ [](Ingested =>
             /\ ingest.line_count = ingest.jsonl.lines
             /\ ListsInOrder(Submitted(Len(ingest.batches)), PreparedLines)
             /\ BatchSizes
             /\ AllAttempted)
    /\ <>Ingested

\* A file of 202 lines whose line 100 is malformed: three batches, the first
\* filled by line 101 and failed, the second and the last (one issue)
\* written.
C25_Witness ==
    /\ Ingested
    /\ ingest.jsonl.malformed = {100} /\ ingest.jsonl.unusable = {}
    /\ Len(ingest.batches) = 3
    /\ ~ingest.batches[1].ok /\ ingest.batches[2].ok /\ ingest.batches[3].ok
    /\ ingest.batches[1].issues[100] = 101
    /\ Len(ingest.batches[3].issues) = 1

\* ------------------------------------------------------------------ C26

\* Found keywords, high-priority neighbors, and one more when more than three
\* neighbors are open.
Indicators ==
    Len(resp.found_keywords) + Cardinality(HighNeighbors)
    + (IF Cardinality(OpenNeighbors) > 3 THEN 1 ELSE 0)

EvenScore ==
    /\ resp.priority_score >= 0
    /\ resp.priority_score % 2 = 0
    /\ resp.priority_score \notin {1, 5, 7}

\* C26 as stated: every assessment, full path or fallback, has an even
\* non-negative score, and its level is Critical exactly when the indicators
\* are at least 4.
C26_EvenScoreCriticalAtFour ==
    Assessed =>
        /\ EvenScore
        /\ (resp.priority_level = "Critical") <=> (Indicators >= 4)

\* C26, amended: every assessment has an even non-negative score, twice the
\* indicators; on the full path the level is Critical exactly when the
\* indicators are at least 4; on the fallback path it is never Critical.
C26_EvenScoreCriticalOnFullPath ==
    Assessed =>
        /\ EvenScore
        /\ resp.priority_score = 2 * Indicators
        /\ FullPath => ((resp.priority_level = "Critical") <=> (Indicators >= 4))
        /\ Degraded => resp.priority_level # "Critical"

\* One keyword found, four open neighbors of which two have a priority label:
\* four indicators, score 8, Critical.
C26_Witness ==
    /\ FullPath
    /\ Len(resp.found_keywords) = 1
    /\ Cardinality(OpenNeighbors) = 4
    /\ Cardinality(HighNeighbors) = 2
    /\ resp.priority_score = 8
    /\ resp.priority_level = "Critical"

\* ------------------------------------------------------------------ C27

\* C27: on the full path, similar_open_issues is at most
\* similar_issues_count, which is the number of neighbors retrieved, and
\* top_similar_issues is the first min(3, similar_issues_count) of them in
\* the order the retrieval returned them.
C27_CountsAndTopThree ==
    FullPath =>
        /\ resp.similar_open_issues <= resp.similar_issues_count
        /\ resp.similar_issues_count = Len(Neighbors)
        /\ Len(resp.top_similar_issues)
               = (IF resp.similar_issues_count < 3 THEN resp.similar_issues_count ELSE 3)
        /\ \A i \in 1..Len(resp.top_similar_issues) :
               /\ resp.top_similar_issues[i].state = Neighbors[i].state
               /\ resp.top_similar_issues[i].labels = Neighbors[i].labels

\* Four neighbors were retrieved, the fourth unlike the first and not all of
\* them open: the top list holds the first three as they came.
C27_Witness ==
    /\ FullPath
    /\ resp.similar_issues_count = 4
    /\ resp.similar_open_issues \in 1..3
    /\ Len(resp.top_similar_issues) = 3
    /\ Neighbors[1] # Neighbors[2] /\ Neighbors[2] # Neighbors[3]
    /\ Neighbors[4] # Neighbors[1]
    /\ resp.top_similar_issues[1].state = Neighbors[1].state
====
